---- MODULE Spec2Model ----
(***************************************************************************)
(* A model of the Zyra tree-walking interpreter (src/interpreter.py):      *)
(* the parent-linked Environment arena, the recursive evaluator            *)
(* Interpreter._eval_node and the function call protocol.  One step of the *)
(* state machine is one call of Interpreter.eval on a top-level statement, *)
(* as the REPL of src/main.py issues them against one Interpreter object.  *)
(***************************************************************************)
EXTENDS Integers, Sequences, FiniteSets, TLC

\* ------------------------------------------------------------------------
\* Python integers.  A Python int is unbounded, so an integer is kept as a
\* sign and a little-endian sequence of 8-bit limbs without trailing zero
\* limbs; zero is the empty magnitude with neg = FALSE.
\* ------------------------------------------------------------------------
LimbBits == 8

Limb == 2 ^ LimbBits

RECURSIVE MagNorm(_)
MagNorm(m) ==
    IF m = <<>> THEN <<>>
    ELSE IF m[Len(m)] = 0 THEN MagNorm(SubSeq(m, 1, Len(m) - 1)) ELSE m

RECURSIVE NatMag(_)
NatMag(n) == IF n = 0 THEN <<>> ELSE <<n % Limb>> \o NatMag(n \div Limb)

MkBig(neg, m) ==
    LET mm == MagNorm(m) IN [neg |-> (neg /\ mm # <<>>), mag |-> mm]

Big(i) == IF i < 0 THEN MkBig(TRUE, NatMag(-i)) ELSE MkBig(FALSE, NatMag(i))

LimbAt(m, i) == IF i <= Len(m) THEN m[i] ELSE 0

MaxOf(a, b) == IF a >= b THEN a ELSE b

RECURSIVE MagAddFrom(_, _, _, _)
MagAddFrom(a, b, i, carry) ==
    IF i > MaxOf(Len(a), Len(b))
    THEN (IF carry = 0 THEN <<>> ELSE <<carry>>)
    ELSE LET s == LimbAt(a, i) + LimbAt(b, i) + carry
         IN  <<s % Limb>> \o MagAddFrom(a, b, i + 1, s \div Limb)

MagAdd(a, b) == MagAddFrom(a, b, 1, 0)

\* a - b for magnitudes with a >= b
RECURSIVE MagSubFrom(_, _, _, _)
MagSubFrom(a, b, i, borrow) ==
    IF i > Len(a) THEN <<>>
    ELSE LET d == LimbAt(a, i) - LimbAt(b, i) - borrow
         IN  IF d < 0 THEN <<d + Limb>> \o MagSubFrom(a, b, i + 1, 1)
                      ELSE <<d>> \o MagSubFrom(a, b, i + 1, 0)

MagSub(a, b) == MagNorm(MagSubFrom(a, b, 1, 0))

RECURSIVE MagLessFrom(_, _, _)
MagLessFrom(a, b, i) ==
    IF i = 0 THEN FALSE
    ELSE IF a[i] # b[i] THEN a[i] < b[i] ELSE MagLessFrom(a, b, i - 1)

MagLess(a, b) ==
    IF Len(a) # Len(b) THEN Len(a) < Len(b) ELSE MagLessFrom(a, b, Len(a))

BigNeg(x) == MkBig(~x.neg, x.mag)

BigAdd(x, y) ==
    IF x.neg = y.neg THEN MkBig(x.neg, MagAdd(x.mag, y.mag))
    ELSE IF MagLess(x.mag, y.mag) THEN MkBig(y.neg, MagSub(y.mag, x.mag))
    ELSE MkBig(x.neg, MagSub(x.mag, y.mag))

BigSub(x, y) == BigAdd(x, BigNeg(y))

BigLess(x, y) ==
    IF x.neg # y.neg THEN x.neg
    ELSE IF x.neg THEN MagLess(y.mag, x.mag) ELSE MagLess(x.mag, y.mag)

BigLeq(x, y) == x = y \/ BigLess(x, y)

RECURSIVE MagQuot(_, _, _)
\* how often the magnitude b (not zero) fits into a, counted from q
MagQuot(a, b, q) ==
    IF MagLess(a, b) THEN q ELSE MagQuot(MagSub(a, b), b, MagAdd(q, <<1>>))

\* x // y of Python for y # 0: the quotient rounded towards minus infinity
BigFloorDiv(x, y) ==
    IF x.neg = y.neg THEN MkBig(FALSE, MagQuot(x.mag, y.mag, <<>>))
    ELSE MkBig(TRUE, MagQuot(MagSub(MagAdd(x.mag, y.mag), <<1>>), y.mag, <<>>))

\* 1 << n
Shl1(n) ==
    MkBig(FALSE, [i \in 1..(n \div LimbBits + 1) |->
                    IF i = n \div LimbBits + 1 THEN 2 ^ (n % LimbBits) ELSE 0])

\* the low k limbs of the two's complement form of x (Python's view of a
\* negative int as an infinite two's complement bit string)
TwosLimbs(x, k) ==
    LET low == [i \in 1..k |-> LimbAt(x.mag, i)]
    IN  IF ~x.neg THEN low
        ELSE LET full == [i \in 1..(k + 1) |-> IF i = k + 1 THEN 1 ELSE 0]
                 c == MagSubFrom(full, MagNorm(low), 1, 0)
             IN  [i \in 1..k |-> c[i]]

RECURSIVE BitAnd(_, _)
BitAnd(a, b) ==
    IF a = 0 \/ b = 0 THEN 0
    ELSE (a % 2) * (b % 2) + 2 * BitAnd(a \div 2, b \div 2)

\* x & y for y >= 0
BigAnd(x, y) ==
    LET k == Len(y.mag)
        t == TwosLimbs(x, k)
    IN  MkBig(FALSE, [i \in 1..k |-> BitAnd(t[i], y.mag[i])])

\* x % (1 << bits): Python's floor modulus, the result is never negative
BigModPow2(x, bits) ==
    LET q == bits \div LimbBits
        r == bits % LimbBits
        k == IF r = 0 THEN q ELSE q + 1
        cut(m) == MagNorm([i \in 1..k |->
                     IF i = q + 1 THEN LimbAt(m, i) % (2 ^ r) ELSE LimbAt(m, i)])
        low == cut(x.mag)
    IN  IF ~x.neg \/ low = <<>> THEN MkBig(FALSE, low)
        ELSE MkBig(FALSE, MagSub(Shl1(bits).mag, low))

\* ------------------------------------------------------------------------
\* Runtime values.  Every value is a record of one shape: t is the variant,
\* n the integer payload, f/e the definition and the captured environment
\* of a Function, s the text of a string or the name of a host callable;
\* a Range keeps start in n, end in m and its inclusive flag in s; c is the
\* text of a string, character by character (the texts of failures are kept
\* by their kind in s).
\* ------------------------------------------------------------------------
IntV(b) == [m |-> Big(0), n |-> b, s |-> "", c |-> <<>>, t |-> "int", f |-> "", e |-> 0]

NullV == [m |-> Big(0), n |-> Big(0), s |-> "", c |-> <<>>, t |-> "null", f |-> "", e |-> 0]

BoolV(b) ==
    [m |-> Big(0), n |-> Big(IF b THEN 1 ELSE 0), s |-> "", c |-> <<>>, t |-> "bool", f |-> "", e |-> 0]

StrV(str) == [m |-> Big(0), n |-> Big(0), s |-> str, c |-> <<>>, t |-> "str", f |-> "", e |-> 0]

\* a str with the characters chars
TextV(chars) == [StrV("") EXCEPT !.c = chars]

\* what print(..., end="") wrote: an entry of the output without a newline
\* of its own
Write(chars) == [TextV(chars) EXCEPT !.t = "write"]

NativeV(name) ==
    [m |-> Big(0), n |-> Big(0), s |-> name, c |-> <<>>, t |-> "native", f |-> "", e |-> 0]

\* Function(def_node, env): the definition is kept by its key in Defs
Function(defId, env) ==
    [m |-> Big(0), n |-> Big(0), s |-> "", c |-> <<>>, t |-> "fn", f |-> defId, e |-> env]

\* Lambda(params, body, env): params and body are kept by the key of the
\* lambda expression in Defs
Lambda(defId, env) ==
    [m |-> Big(0), n |-> Big(0), s |-> "", c |-> <<>>, t |-> "lambda", f |-> defId, e |-> env]

\* Range(start, end, inclusive)
Range(start, end, inclusive) ==
    [m |-> end, n |-> start, s |-> IF inclusive THEN "inclusive" ELSE "", c |-> <<>>,
     t |-> "range", f |-> "", e |-> 0]

IsNum(v) == v.t \in {"int", "bool"}

\* Python truthiness of a value
Truthy(v) ==
    CASE v.t = "null" -> FALSE
      [] v.t \in {"int", "bool"} -> v.n # Big(0)
      [] v.t = "str" -> v.s # "" \/ v.c # <<>>
      [] OTHER -> TRUE

\* ------------------------------------------------------------------------
\* Sized-integer wrap (Environment.wrap_type, Environment.signed_wrap)
\* ------------------------------------------------------------------------
UIntTypes == {"uint8", "uint16", "uint32", "uint64", "uint128", "uint256"}

IntTypes == {"int8", "int16", "int32", "int64", "int128", "int256"}

\* int(var_type[4:]) and int(var_type[3:])
TypeBits(var_type) ==
    CASE var_type \in {"uint8", "int8"} -> 8
      [] var_type \in {"uint16", "int16"} -> 16
      [] var_type \in {"uint32", "int32"} -> 32
      [] var_type \in {"uint64", "int64"} -> 64
      [] var_type \in {"uint128", "int128"} -> 128
      [] var_type \in {"uint256", "int256"} -> 256

signed_wrap_nosub(value, bits) ==
    BigModPow2(BigAdd(value, Shl1(bits - 1)), bits)

signed_wrap(value, bits) ==
    BigSub(BigModPow2(BigAdd(value, Shl1(bits - 1)), bits), Shl1(bits - 1))

\* value & ((1 << bit_size) - 1)
mask_wrap(value, bit_size) ==
    BigAnd(value, BigSub(Shl1(bit_size), Big(1)))

wrap_type(value, var_type) ==
    CASE var_type \in UIntTypes -> mask_wrap(value, TypeBits(var_type))
      [] var_type \in IntTypes -> signed_wrap(value, TypeBits(var_type))
      [] var_type \in {"isize", "ptrdiff"} -> signed_wrap(value, 64)
      [] var_type = "usize" -> BigModPow2(value, 64)
      [] OTHER -> value

SizedTypes == UIntTypes \cup IntTypes \cup {"isize", "ptrdiff", "usize"}

\* wrap_type applied to a runtime value: the operators &, + and % of the
\* host fail on a value that is not a number (None, a function, a string)
\* and leave every value alone when the type is not a sized-integer name
WrapValue(v, var_type) ==
    IF var_type \notin SizedTypes THEN [v |-> v, ok |-> TRUE]
    ELSE IF IsNum(v) THEN [v |-> IntV(wrap_type(v.n, var_type)), ok |-> TRUE]
    ELSE [v |-> v, ok |-> FALSE]

\* ------------------------------------------------------------------------
\* Environment: a node of the parent-linked scope tree.  The environments
\* live in an arena (a sequence); parent = 0 is Python's None.  vars maps a
\* name to (value, type, is_const, is_mut); var_type "" is None.
\* ------------------------------------------------------------------------
Binding(value, var_type, is_const, is_mut) ==
    [var_type |-> var_type, value |-> value, is_const |-> is_const, is_mut |-> is_mut]

EmptyVars == [n \in {} |-> NullV]

\* self.structs, self.unions, self.enums: a name to its definition node
EmptyDefs == [n \in {} |-> [k |-> "None"]]

Environment(parent) ==
    [parent |-> parent, vars |-> EmptyVars, structs |-> EmptyDefs, unions |-> EmptyDefs,
     enums |-> EmptyDefs]

Owns(envs, e, name) == name \in DOMAIN envs[e].vars

\* the nearest environment on the chain of e that owns name, 0 when none
RECURSIVE OwnerOf(_, _, _)
OwnerOf(envs, e, name) ==
    IF e = 0 THEN 0
    ELSE IF Owns(envs, e, name) THEN e
    ELSE OwnerOf(envs, envs[e].parent, name)

RECURSIVE RootOf(_, _)
RootOf(envs, e) == IF envs[e].parent = 0 THEN e ELSE RootOf(envs, envs[e].parent)

\* Environment.get
RECURSIVE EnvGet(_, _, _)
EnvGet(envs, e, name) ==
    IF Owns(envs, e, name) THEN [v |-> envs[e].vars[name].value, err |-> ""]
    ELSE IF envs[e].parent # 0 THEN EnvGet(envs, envs[e].parent, name)
    ELSE [v |-> NullV, err |-> "undefined"]

PutVar(envs, e, name, b) ==
    [envs EXCEPT ![e].vars =
        [n \in DOMAIN envs[e].vars \cup {name} |->
            IF n = name THEN b ELSE envs[e].vars[n]]]

\* self.vars[name] = (value, var_type, is_const, is_mut) once wrap_type has
\* been applied (w is its outcome)
Store(envs, e, name, w, var_type, is_const, is_mut) ==
    IF ~w.ok THEN [envs |-> envs, err |-> "pyerror"]
    ELSE [envs |-> PutVar(envs, e, name, Binding(w.v, var_type, is_const, is_mut)),
          err |-> ""]

\* a define that lands in the root of the chain
EnvDefine_root(envs, e, name, value, var_type, is_const, is_mut) ==
    Store(envs, RootOf(envs, e), name, WrapValue(value, var_type),
          var_type, is_const, is_mut)

\* Environment.define
EnvDefine(envs, e, name, value, var_type, is_const, is_mut) ==
    Store(envs, e, name, WrapValue(value, var_type), var_type, is_const, is_mut)

\* Environment.set on the environment that owns name: b is its binding
SetOwned_noconst(envs, e, name, b, value) ==
    Store(envs, e, name, WrapValue(value, b.var_type), b.var_type, b.is_const, b.is_mut)

SetOwned_nowrap(envs, e, name, b, value) ==
    IF b.is_const THEN [envs |-> envs, err |-> "const"]
    ELSE IF ~b.is_mut THEN [envs |-> envs, err |-> "immutable"]
    ELSE Store(envs, e, name, [v |-> value, ok |-> TRUE], b.var_type, b.is_const, b.is_mut)

SetOwned(envs, e, name, b, value) ==
    IF b.is_const THEN [envs |-> envs, err |-> "const"]
    ELSE IF ~b.is_mut THEN [envs |-> envs, err |-> "immutable"]
    ELSE Store(envs, e, name, WrapValue(value, b.var_type),
               b.var_type, b.is_const, b.is_mut)

\* Environment.set
RECURSIVE EnvSet(_, _, _, _)
EnvSet(envs, e, name, value) ==
    IF Owns(envs, e, name) THEN SetOwned(envs, e, name, envs[e].vars[name], value)
    ELSE IF envs[e].parent # 0 THEN EnvSet(envs, envs[e].parent, name, value)
    ELSE EnvDefine(envs, e, name, value, "", FALSE, TRUE)

\* ------------------------------------------------------------------------
\* AST nodes (src/ast_nodes_enhanced.py), with the field names of the
\* classes.  None is NoNode.  A FunctionDef node is kept by its key in
\* the table Defs; kwargs is the insertion-ordered list of (name, expr).
\* ------------------------------------------------------------------------
NoNode == [k |-> "None"]

Literal(value) == [k |-> "Literal", value |-> value]

Num(i) == Literal(IntV(Big(i)))

Identifier(name) == [k |-> "Identifier", name |-> name]

BinaryOp(left, op, right) == [k |-> "BinaryOp", left |-> left, op |-> op, right |-> right]

UnaryOp(op, expr) == [k |-> "UnaryOp", op |-> op, expr |-> expr]

TernaryOp(condition, true_val, false_val) ==
    [k |-> "TernaryOp", condition |-> condition, true_val |-> true_val,
     false_val |-> false_val]

AwaitExpr(expr) == [k |-> "AwaitExpr", expr |-> expr]

UIntLiteral(value, bit_size) == [k |-> "UIntLiteral", value |-> value, bit_size |-> bit_size]

IntLiteral(value, bits) == [k |-> "IntLiteral", bits |-> bits, value |-> value]

SizeIntLiteral(expr, signed) == [k |-> "SizeIntLiteral", expr |-> expr, signed |-> signed]

PtrDiffLiteral(expr) == [k |-> "PtrDiffLiteral", expr |-> expr]

VarDecl(var_type, name, value, is_const, is_mut) ==
    [k |-> "VarDecl", name |-> name, var_type |-> var_type, value |-> value, is_const |-> is_const,
     is_mut |-> is_mut]

Assignment(name, value) == [k |-> "Assignment", name |-> name, value |-> value]

AugmentedAssignment(name, operator, value) ==
    [k |-> "AugmentedAssignment", name |-> name, value |-> value, operator |-> operator]

IfStatement(condition, then_body, else_body) ==
    [k |-> "IfStatement", condition |-> condition, then_body |-> then_body,
     else_body |-> else_body]

WhileLoop(condition, body) == [k |-> "WhileLoop", condition |-> condition, body |-> body]

ForLoop(init, condition, update, body) ==
    [k |-> "ForLoop", condition |-> condition, body |-> body, init |-> init, update |-> update]

ForInLoop(var_name, iterable, body) ==
    [k |-> "ForInLoop", body |-> body, var_name |-> var_name, iterable |-> iterable]

RangeLiteral(start, end, inclusive) ==
    [k |-> "RangeLiteral", start |-> start, end |-> end, inclusive |-> inclusive]

\* cases: a sequence of <<case_val, stmts>>; default: a statement list
SwitchStatement(expr, cases, default) ==
    [k |-> "SwitchStatement", expr |-> expr, cases |-> cases, default |-> default]

\* arms: a sequence of <<pattern, guard, body>>
MatchStatement(expr, arms) == [k |-> "MatchStatement", expr |-> expr, arms |-> arms]

BreakStatement(value) == [k |-> "BreakStatement", value |-> value]

ContinueStatement == [k |-> "ContinueStatement"]

ReturnStatement(expr) == [k |-> "ReturnStatement", expr |-> expr]

Program(statements) == [k |-> "Program", statements |-> statements]

FunctionDef(id) == [k |-> "FunctionDef", id |-> id]

FunctionCall(name, args, kwargs) ==
    [k |-> "FunctionCall", name |-> name, args |-> args, kwargs |-> kwargs]

PrintStatement(expr) == [k |-> "PrintStatement", expr |-> expr]

PrintfStatement(format_expr, args) ==
    [k |-> "PrintfStatement", args |-> args, format_expr |-> format_expr]

\* LambdaExpr(params, body), kept by its key in Defs
LambdaExpr(id) == [k |-> "LambdaExpr", id |-> id]

\* a catch clause (exception_type, catch_var, catch_block); <<>> and ""
\* stand for None
CatchClause(exception_type, catch_var, catch_block) ==
    [exception_type |-> exception_type, catch_var |-> catch_var, catch_block |-> catch_block]

TryCatchStatement(try_block, catch_clauses, finally_block) ==
    [k |-> "TryCatchStatement", try_block |-> try_block, catch_clauses |-> catch_clauses,
     finally_block |-> finally_block]

ThrowStatement(expr) == [k |-> "ThrowStatement", expr |-> expr]

\* fields: a sequence of <<field_name, field_type, default_value>>
StructDef(name, fields) == [k |-> "StructDef", name |-> name, fields |-> fields]

\* the node the UnionDef branch of the interpreter expects: a name and fields
UnionDef(name, fields) == [k |-> "UnionDef", name |-> name, fields |-> fields]

\* variants: a sequence of <<variant_name, associated_data>>
EnumDef(name, variants) == [k |-> "EnumDef", name |-> name, variants |-> variants]

\* fields: a sequence of <<name, value>> (a dict, named) or of values (a
\* list, not named)
StructLiteral(struct_name, fields, named) ==
    [k |-> "StructLiteral", fields |-> fields, struct_name |-> struct_name, named |-> named]

MemberAccess(obj, member) == [k |-> "MemberAccess", obj |-> obj, member |-> member]

\* Parser.const_decl: const NAME = value
ConstDecl(name, value) == VarDecl("", name, value, TRUE, FALSE)

\* Parser.var_decl: dec [type] NAME = value
Dec(var_type, name, value) == VarDecl(var_type, name, value, FALSE, TRUE)

\* one parameter of Parser.function_def: (param_type, param_name, default_value)
Param(param_type, param_name, default) ==
    [default |-> default, param_type |-> param_type, param_name |-> param_name]

Call(name, args) == FunctionCall(name, args, <<>>)

\* ------------------------------------------------------------------------
\* The function definitions of the programs run (the table a FunctionDef
\* node points into): name, params, body.
\* ------------------------------------------------------------------------
Def(name, params, body) == [name |-> name, body |-> body, params |-> params]

Defs == [
    \* fnc setx(w) { x = w }
    setx |-> Def("setx", <<Param("", "w", NoNode)>>,
                 <<Assignment("x", Identifier("w"))>>),
    \* fnc addx(w) { x += w }
    addx |-> Def("addx", <<Param("", "w", NoNode)>>,
                 <<AugmentedAssignment("x", "+=", Identifier("w"))>>),
    \* fnc incx() { x++ }
    incx |-> Def("incx", <<>>, <<UnaryOp("++_post", Identifier("x"))>>),
    \* fnc decx() { --x }
    decx |-> Def("decx", <<>>, <<UnaryOp("--", Identifier("x"))>>),
    \* fnc mkconst(v) { const x = v  fnc setx(w) { x = w }  return setx }
    mkconst |-> Def("mkconst", <<Param("", "v", NoNode)>>,
                    <<ConstDecl("x", Identifier("v")),
                      FunctionDef("setx"),
                      ReturnStatement(Identifier("setx"))>>),
    \* fnc shadow(w) { dec x = 0  x = w  return x }
    shadow |-> Def("shadow", <<Param("", "w", NoNode)>>,
                   <<Dec("", "x", Num(0)),
                     Assignment("x", Identifier("w")),
                     ReturnStatement(Identifier("x"))>>),
    \* fnc mk() { dec c = 0  fnc g() {..}  fnc r() {..}  rd = r  return g }
    mk |-> Def("mk", <<>>,
               <<Dec("", "c", Num(0)),
                 FunctionDef("g"),
                 FunctionDef("r"),
                 Assignment("rd", Identifier("r")),
                 ReturnStatement(Identifier("g"))>>),
    \* fnc g() { c += 1  return c }
    g |-> Def("g", <<>>,
              <<AugmentedAssignment("c", "+=", Num(1)),
                ReturnStatement(Identifier("c"))>>),
    \* fnc r() { return c }
    r |-> Def("r", <<>>, <<ReturnStatement(Identifier("c"))>>),
    \* fnc mkt(int8 a) { fnc seta(w) { a = w  return a }  return seta }
    mkt |-> Def("mkt", <<Param("int8", "a", NoNode)>>,
                <<FunctionDef("seta"), ReturnStatement(Identifier("seta"))>>),
    \* fnc mku(uint8 a) { fnc seta(w) { a = w  return a }  return seta }
    mku |-> Def("mku", <<Param("uint8", "a", NoNode)>>,
                <<FunctionDef("seta"), ReturnStatement(Identifier("seta"))>>),
    seta |-> Def("seta", <<Param("", "w", NoNode)>>,
                 <<Assignment("a", Identifier("w")), ReturnStatement(Identifier("a"))>>),
    \* fnc putz(w) { z = w }
    putz |-> Def("putz", <<Param("", "w", NoNode)>>,
                 <<Assignment("z", Identifier("w"))>>),
    \* fnc nest(w) { dec z = 0  fnc inner(v) { z = v }  inner(w)  return z }
    nest |-> Def("nest", <<Param("", "w", NoNode)>>,
                 <<Dec("", "z", Num(0)),
                   FunctionDef("inner"),
                   Call("inner", <<Identifier("w")>>),
                   ReturnStatement(Identifier("z"))>>),
    inner |-> Def("inner", <<Param("", "v", NoNode)>>,
                  <<Assignment("z", Identifier("v"))>>),
    \* fnc redecl(w) { dec x = w  fnc rdx() { return x }  return rdx() }
    redecl |-> Def("redecl", <<Param("", "w", NoNode)>>,
                   <<Dec("", "x", Identifier("w")),
                     FunctionDef("rdx"),
                     ReturnStatement(Call("rdx", <<>>))>>),
    rdx |-> Def("rdx", <<>>, <<ReturnStatement(Identifier("x"))>>),
    \* fnc twice(w) { dec x = 0  dec x = w  return x }
    twice |-> Def("twice", <<Param("", "w", NoNode)>>,
                  <<Dec("", "x", Num(0)),
                    Dec("", "x", Identifier("w")),
                    ReturnStatement(Identifier("x"))>>),
    \* fnc peek() { return q }
    peek |-> Def("peek", <<>>, <<ReturnStatement(Identifier("q"))>>),
    \* fnc caller(w) { dec q = w  return peek() }
    caller |-> Def("caller", <<Param("", "w", NoNode)>>,
                   <<Dec("", "q", Identifier("w")),
                     ReturnStatement(Call("peek", <<>>))>>),
    \* fnc deep(w) { dec q = w  fnc mid() { return peek() }  return mid() }
    deep |-> Def("deep", <<Param("", "w", NoNode)>>,
                 <<Dec("", "q", Identifier("w")),
                   FunctionDef("mid"),
                   ReturnStatement(Call("mid", <<>>))>>),
    mid |-> Def("mid", <<>>, <<ReturnStatement(Call("peek", <<>>))>>),
    \* fnc tick() { n += 1  return n }
    tick |-> Def("tick", <<>>,
                 <<AugmentedAssignment("n", "+=", Num(1)),
                   ReturnStatement(Identifier("n"))>>),
    \* fnc f0() { print(0)  return 0 }
    f0 |-> Def("f0", <<>>, <<PrintStatement(Num(0)), ReturnStatement(Num(0))>>),
    \* fnc f1(a) { print(0)  return a }
    f1 |-> Def("f1", <<Param("", "a", NoNode)>>,
               <<PrintStatement(Num(0)), ReturnStatement(Identifier("a"))>>),
    \* fnc f12(a, b = 7) { print(0)  return b }
    f12 |-> Def("f12", <<Param("", "a", NoNode), Param("", "b", Num(7))>>,
                <<PrintStatement(Num(0)), ReturnStatement(Identifier("b"))>>),
    \* fnc f02(a = 5, b = 7) { print(0)  return a }
    f02 |-> Def("f02", <<Param("", "a", Num(5)), Param("", "b", Num(7))>>,
                <<PrintStatement(Num(0)), ReturnStatement(Identifier("a"))>>),
    \* fnc fd(a, b = a + 1) { return b }
    fd |-> Def("fd", <<Param("", "a", NoNode),
                       Param("", "b", BinaryOp(Identifier("a"), "+", Num(1)))>>,
               <<ReturnStatement(Identifier("b"))>>),
    \* fnc fz(a, b = z + 1) { return b }
    fz |-> Def("fz", <<Param("", "a", NoNode),
                       Param("", "b", BinaryOp(Identifier("z"), "+", Num(1)))>>,
               <<ReturnStatement(Identifier("b"))>>),
    \* fnc callz(w) { dec z = w  return fz(1) }
    callz |-> Def("callz", <<Param("", "w", NoNode)>>,
                  <<Dec("", "z", Identifier("w")),
                    ReturnStatement(Call("fz", <<Num(1)>>))>>),
    \* fnc sub(a, b) { return a - b }
    sub |-> Def("sub", <<Param("", "a", NoNode), Param("", "b", NoNode)>>,
                <<ReturnStatement(BinaryOp(Identifier("a"), "-", Identifier("b")))>>),
    \* fnc r_if(n) { if (n == 1) { if (n == 1) { return 10  print(9) }  print(9) }
    \*               print(8) }
    r_if |-> Def("r_if", <<Param("", "n", NoNode)>>,
                 <<IfStatement(BinaryOp(Identifier("n"), "==", Num(1)),
                      <<IfStatement(BinaryOp(Identifier("n"), "==", Num(1)),
                           <<ReturnStatement(Num(10)), PrintStatement(Num(9))>>, <<>>),
                        PrintStatement(Num(9))>>, <<>>),
                   PrintStatement(Num(8))>>),
    \* fnc r_while(n) { dec k = 0
    \*     while (true) { k += 1  if (k == n) { return k  print(9) }
    \*                    if (k == 3) { return 30 } }
    \*     print(9)  return 99 }
    r_while |-> Def("r_while", <<Param("", "n", NoNode)>>,
                    <<Dec("", "k", Num(0)),
                      WhileLoop(Literal(BoolV(TRUE)),
                         <<AugmentedAssignment("k", "+=", Num(1)),
                           IfStatement(BinaryOp(Identifier("k"), "==", Identifier("n")),
                              <<ReturnStatement(Identifier("k")), PrintStatement(Num(9))>>,
                              <<>>),
                           IfStatement(BinaryOp(Identifier("k"), "==", Num(3)),
                              <<ReturnStatement(Num(30))>>, <<>>)>>),
                      PrintStatement(Num(9)),
                      ReturnStatement(Num(99))>>),
    \* fnc r_for(n) { for (i = 0; i < 3; i += 1) { if (i == n) { return i  print(9) } }
    \*                return 100 }
    r_for |-> Def("r_for", <<Param("", "n", NoNode)>>,
                  <<ForLoop(Assignment("i", Num(0)),
                       BinaryOp(Identifier("i"), "<", Num(3)),
                       AugmentedAssignment("i", "+=", Num(1)),
                       <<IfStatement(BinaryOp(Identifier("i"), "==", Identifier("n")),
                            <<ReturnStatement(Identifier("i")), PrintStatement(Num(9))>>,
                            <<>>)>>),
                    ReturnStatement(Num(100))>>),
    \* fnc r_forin(n) { for k in 0..3 { if (k == n) { return k  print(9) } }
    \*                  return 100 }
    r_forin |-> Def("r_forin", <<Param("", "n", NoNode)>>,
                    <<ForInLoop("k", RangeLiteral(Num(0), Num(3), FALSE),
                         <<IfStatement(BinaryOp(Identifier("k"), "==", Identifier("n")),
                              <<ReturnStatement(Identifier("k")), PrintStatement(Num(9))>>,
                              <<>>)>>),
                      ReturnStatement(Num(100))>>),
    \* fnc r_switch(n) { switch (n) { case 1: return 10  print(9)
    \*                                case 2: while (true) { return 20 }  print(9)
    \*                                default: return 30  print(9) }
    \*                   print(9)  return 99 }
    r_switch |-> Def("r_switch", <<Param("", "n", NoNode)>>,
                     <<SwitchStatement(Identifier("n"),
                          << <<Num(1), <<ReturnStatement(Num(10)), PrintStatement(Num(9))>> >>,
                             <<Num(2), <<WhileLoop(Literal(BoolV(TRUE)),
                                            <<ReturnStatement(Num(20))>>),
                                         PrintStatement(Num(9))>> >> >>,
                          <<ReturnStatement(Num(30)), PrintStatement(Num(9))>>),
                       PrintStatement(Num(9)),
                       ReturnStatement(Num(99))>>),
    \* fnc r_match(n) { match n { 1 => { return 10  print(9) }
    \*                            _ => { if (n == 2) { return 20 } } }
    \*                  print(8)  return 99 }
    r_match |-> Def("r_match", <<Param("", "n", NoNode)>>,
                    <<MatchStatement(Identifier("n"),
                         << <<Num(1), NoNode,
                              <<ReturnStatement(Num(10)), PrintStatement(Num(9))>> >>,
                            <<Identifier("_"), NoNode,
                              <<IfStatement(BinaryOp(Identifier("n"), "==", Num(2)),
                                   <<ReturnStatement(Num(20))>>, <<>>)>> >> >>),
                      PrintStatement(Num(8)),
                      ReturnStatement(Num(99))>>),
    \* fnc r_deep(n) { while (true) { for (i = 0; i < 3; i += 1) { switch (i) {
    \*     case 2: match n { 1 => { return i + n  print(9) }  _ => { return 50 } } } }
    \*     print(9) } }
    r_deep |-> Def("r_deep", <<Param("", "n", NoNode)>>,
                   <<WhileLoop(Literal(BoolV(TRUE)),
                        <<ForLoop(Assignment("i", Num(0)),
                             BinaryOp(Identifier("i"), "<", Num(3)),
                             AugmentedAssignment("i", "+=", Num(1)),
                             <<SwitchStatement(Identifier("i"),
                                  << <<Num(2),
                                       <<MatchStatement(Identifier("n"),
                                            << <<Num(1), NoNode,
                                                 <<ReturnStatement(
                                                      BinaryOp(Identifier("i"), "+",
                                                               Identifier("n"))),
                                                   PrintStatement(Num(9))>> >>,
                                               <<Identifier("_"), NoNode,
                                                 <<ReturnStatement(Num(50))>> >> >>)>> >> >>,
                                  <<>>)>>),
                          PrintStatement(Num(9))>>)>>),
    \* fnc sum3() { dec t = 0  for k in 0..=2 { t += r_for(k) }  return t }
    sum3 |-> Def("sum3", <<>>,
                 <<Dec("", "t", Num(0)),
                   ForInLoop("k", RangeLiteral(Num(0), Num(2), TRUE),
                      <<AugmentedAssignment("t", "+=",
                                            Call("r_for", <<Identifier("k")>>))>>),
                   ReturnStatement(Identifier("t"))>>),
    \* fnc brk() { break }
    brk |-> Def("brk", <<>>, <<BreakStatement(NoNode)>>),
    \* fnc cnt() { continue }
    cnt |-> Def("cnt", <<>>, <<ContinueStatement>>),
    \* fnc own() { for k in 0..2 { break }  return 7 }
    own |-> Def("own", <<>>,
                  <<ForInLoop("k", RangeLiteral(Num(0), Num(2), FALSE),
                              <<BreakStatement(NoNode)>>),
                    ReturnStatement(Num(7))>>),
    \* fnc lhs(a) { print(1)  return a }
    lhs |-> Def("lhs", <<Param("", "a", NoNode)>>,
                <<PrintStatement(Num(1)), ReturnStatement(Identifier("a"))>>),
    \* fnc rhs(a) { print(2)  return a }
    rhs |-> Def("rhs", <<Param("", "a", NoNode)>>,
                <<PrintStatement(Num(2)), ReturnStatement(Identifier("a"))>>),
    \* fnc t_ret(a) { try { if (a == 2) { return 7 }  print(3) } finally { print(9) }
    \*                return 8 }
    t_ret |-> Def("t_ret", <<Param("", "a", NoNode)>>,
                  <<TryCatchStatement(
                        <<IfStatement(BinaryOp(Identifier("a"), "==", Num(2)),
                                      <<ReturnStatement(Num(7))>>, <<>>),
                          PrintStatement(Num(3))>>,
                        <<>>,
                        <<PrintStatement(Num(9))>>),
                    ReturnStatement(Num(8))>>),
    \* fnc g_throw(a) { throw a  print(4) }
    g_throw |-> Def("g_throw", <<Param("", "a", NoNode)>>,
                    <<ThrowStatement(Identifier("a")), PrintStatement(Num(4))>>),
    \* fnc bump() { return y++ }
    bump |-> Def("bump", <<>>, <<ReturnStatement(UnaryOp("++_post", Identifier("y")))>>),
    \* fnc incl(a) { dec y = a  print(++y)  return y-- }
    incl |-> Def("incl", <<Param("", "a", NoNode)>>,
                 <<Dec("", "y", Identifier("a")),
                   PrintStatement(UnaryOp("++", Identifier("y"))),
                   ReturnStatement(UnaryOp("--_post", Identifier("y")))>>),
    \* fnc declx(a) { dec x = a  return x }
    declx |-> Def("declx", <<Param("", "a", NoNode)>>,
                  <<Dec("", "x", Identifier("a")), ReturnStatement(Identifier("x"))>>),
    \* fnc t_rc(a) { try { if (a == 2) { return 7 }  print(3) } catch (caught) { print(6) }
    \*               finally { print(9) }  return 8 }
    t_rc |-> Def("t_rc", <<Param("", "a", NoNode)>>,
                 <<TryCatchStatement(
                       <<IfStatement(BinaryOp(Identifier("a"), "==", Num(2)),
                                     <<ReturnStatement(Num(7))>>, <<>>),
                         PrintStatement(Num(3))>>,
                       <<CatchClause(<<>>, "caught", <<PrintStatement(Num(6))>>)>>,
                       <<PrintStatement(Num(9))>>),
                   ReturnStatement(Num(8))>>),
    \* |a| a + nope
    lam_add |-> Def("", <<Param("", "a", NoNode)>>,
                    BinaryOp(Identifier("a"), "+", Identifier("nope"))),
    \* fnc addn(a) { return a + nope }
    addn |-> Def("addn", <<Param("", "a", NoNode)>>,
                 <<ReturnStatement(BinaryOp(Identifier("a"), "+", Identifier("nope")))>>),
    \* fnc addp(a) { print(a + nope) }
    addp |-> Def("addp", <<Param("", "a", NoNode)>>,
                 <<PrintStatement(BinaryOp(Identifier("a"), "+", Identifier("nope")))>>)
    ]

\* ------------------------------------------------------------------------
\* The evaluator.  The interpreter state st is (envs, env, out): the arena,
\* self.env and the lines written so far.  An evaluation returns the state
\* it leaves, a signal and a value: sig "ok" is a normal return of
\* Interpreter.eval with val the value returned; "return", "break" and
\* "continue" are ReturnException, BreakException and ContinueException in
\* flight (val the value carried); "error" is a RuntimeError in flight,
\* err naming it.  A host exception raised inside _eval_node (a TypeError)
\* is the RuntimeError "pyerror" that Interpreter.eval turns it into.
\*
\* Each branch of _eval_node is written as a chain of operators: an
\* operator takes the outcome of the sub-evaluation before it as its last
\* argument, lets anything but "ok" propagate, and goes on with the next
\* line of the branch.
\* ------------------------------------------------------------------------
Res(st, sig, val, err) == [err |-> err, st |-> st, sig |-> sig, val |-> val]

Ok(st, val) == Res(st, "ok", val, "")

Raise(st, err) == Res(st, "error", NullV, err)

\* a statement list that ended normally: the statement yields None
Normal(b) == IF b.sig = "ok" THEN Ok(b.st, NullV) ELSE b

\* the outcome of a host operation or a lookup r = (err, v) in state st
Computed(st, r) == IF r.err # "" THEN Raise(st, r.err) ELSE Ok(st, r.v)

\* the outcome of Environment.define / Environment.set u = (envs, err) in
\* state st, the branch returning val
Stored(st, u, val) ==
    IF u.err # "" THEN Raise(st, u.err) ELSE Ok([st EXCEPT !.envs = u.envs], val)

\* Python's == on two values
PyEq(l, r) == IF IsNum(l) /\ IsNum(r) THEN l.n = r.n ELSE l = r

\* an arithmetic or ordering operator of the host: defined on numbers
OnNums(l, r, v) ==
    IF IsNum(l) /\ IsNum(r) THEN [v |-> v, err |-> ""] ELSE [v |-> NullV, err |-> "pyerror"]

\* the operator table of eval_binary_op, for the operators the programs use
ApplyBinary(op, l, r) ==
    CASE op = "+" -> OnNums(l, r, IntV(BigAdd(l.n, r.n)))
      [] op = "-" -> OnNums(l, r, IntV(BigSub(l.n, r.n)))
      [] op = "//" ->
           IF IsNum(l) /\ IsNum(r) /\ r.n # Big(0)
           THEN [v |-> IntV(BigFloorDiv(l.n, r.n)), err |-> ""]
           ELSE [v |-> NullV, err |-> "pyerror"]
      [] op = "==" -> [v |-> BoolV(PyEq(l, r)), err |-> ""]
      [] op = "!=" -> [v |-> BoolV(~PyEq(l, r)), err |-> ""]
      [] op = "<" -> OnNums(l, r, BoolV(BigLess(l.n, r.n)))
      [] op = ">" -> OnNums(l, r, BoolV(BigLess(r.n, l.n)))
      [] op = "<=" -> OnNums(l, r, BoolV(BigLeq(l.n, r.n)))
      [] op = ">=" -> OnNums(l, r, BoolV(BigLeq(r.n, l.n)))
      [] op \in {"and", "&&"} -> [v |-> IF Truthy(l) THEN r ELSE l, err |-> ""]
      [] op \in {"or", "||"} -> [v |-> IF Truthy(l) THEN l ELSE r, err |-> ""]

\* Interpreter.apply_augmented_op
apply_augmented_op(left, op, right) ==
    CASE op = "+=" -> ApplyBinary("+", left, right)
      [] op = "-=" -> ApplyBinary("-", left, right)

\* a host callable of setup_builtins applied to evaluated arguments
NativeCall(name, args) ==
    CASE name = "abs" ->
           IF Len(args) = 1 /\ IsNum(args[1])
           THEN [v |-> IntV(MkBig(FALSE, args[1].n.mag)), err |-> ""]
           ELSE [v |-> NullV, err |-> "pyerror"]

\* Interpreter.match_pattern, for wildcard, literal and binding patterns
match_pattern(pattern, value, st) ==
    IF pattern.k = "Identifier" /\ pattern.name = "_" THEN [m |-> TRUE, st |-> st]
    ELSE IF pattern.k = "Literal" THEN [m |-> PyEq(pattern.value, value), st |-> st]
    ELSE IF pattern.k = "Identifier"
    THEN [m |-> TRUE,
          st |-> [st EXCEPT !.envs =
                     EnvDefine(st.envs, st.env, pattern.name, value, "", FALSE, TRUE).envs]]
    ELSE [m |-> FALSE, st |-> st]

RECURSIVE Eval(_, _)
RECURSIVE ExecProgram(_, _, _, _)
RECURSIVE ExecBlock(_, _, _)
RECURSIVE WhileIter(_, _)
RECURSIVE ForIter(_, _)
RECURSIVE ForInIter(_, _, _, _)
RECURSIVE SwitchBody(_, _, _)
RECURSIVE SwitchCases(_, _, _, _)
RECURSIVE MatchArms(_, _, _, _)
RECURSIVE EvalArgs(_, _, _, _)
RECURSIVE BindParams(_, _, _, _, _)
RECURSIVE BindKwargs(_, _, _, _)

\* Program: result = self.eval(stmt) for each statement, the last result
\* is returned
ProgramNext(stmts, i, r) ==
    IF r.sig # "ok" THEN r ELSE ExecProgram(stmts, i + 1, r.val, r.st)

ExecProgram(stmts, i, result, st) ==
    IF i > Len(stmts) THEN Ok(st, result) ELSE ProgramNext(stmts, i, Eval(stmts[i], st))

\* for stmt in stmts: self.eval(stmt), from statement i on
BlockNext(stmts, i, r) == IF r.sig # "ok" THEN r ELSE ExecBlock(stmts, i + 1, r.st)

ExecBlock(stmts, i, st) ==
    IF i > Len(stmts) THEN Ok(st, NullV) ELSE BlockNext(stmts, i, Eval(stmts[i], st))

\* IfStatement: c is the outcome of the condition
EvalIf(node, c) ==
    IF c.sig # "ok" THEN c
    ELSE IF Truthy(c.val) THEN Normal(ExecBlock(node.then_body, 1, c.st))
    ELSE Normal(ExecBlock(node.else_body, 1, c.st))

\* WhileLoop: the condition is inside the outer try (BreakException), the
\* body inside the inner one (ContinueException)
WhileBody(node, b) ==
    CASE b.sig \in {"ok", "continue"} -> WhileIter(node, b.st)
      [] b.sig = "break" -> Ok(b.st, NullV)
      [] OTHER -> b

WhileCond(node, c) ==
    IF c.sig = "break" THEN Ok(c.st, NullV)
    ELSE IF c.sig # "ok" THEN c
    ELSE IF ~Truthy(c.val) THEN Ok(c.st, NullV)
    ELSE WhileBody(node, ExecBlock(node.body, 1, c.st))

WhileIter(node, st) == WhileCond(node, Eval(node.condition, st))

\* ForLoop after init: condition, body, update
ForUpdate(node, u) ==
    IF u.sig = "break" THEN Ok(u.st, NullV)
    ELSE IF u.sig # "ok" THEN u
    ELSE ForIter(node, u.st)

\* a for loop that a continue in its body ends
ForBody_stop(node, b) ==
    CASE b.sig = "ok" -> ForUpdate(node, Eval(node.update, b.st))
      [] b.sig \in {"break", "continue"} -> Ok(b.st, NullV)
      [] OTHER -> b

ForBody(node, b) ==
    CASE b.sig \in {"ok", "continue"} -> ForUpdate(node, Eval(node.update, b.st))
      [] b.sig = "break" -> Ok(b.st, NullV)
      [] OTHER -> b

ForCond(node, c) ==
    IF c.sig = "break" THEN Ok(c.st, NullV)
    ELSE IF c.sig # "ok" THEN c
    ELSE IF ~Truthy(c.val) THEN Ok(c.st, NullV)
    ELSE ForBody(node, ExecBlock(node.body, 1, c.st))

ForIter(node, st) == ForCond(node, Eval(node.condition, st))

EvalFor(node, i) == IF i.sig # "ok" THEN i ELSE ForIter(node, i.st)

\* RangeLiteral: start, then end, of integers
RangeEnd(node, start, end) ==
    IF end.sig # "ok" THEN end
    ELSE CASE IsNum(start.val) /\ IsNum(end.val) ->
                Ok(end.st, Range(start.val.n, end.val.n, node.inclusive))

RangeStart(node, start) ==
    IF start.sig # "ok" THEN start ELSE RangeEnd(node, start, Eval(node.end, start.st))

\* ForInLoop over a Range: val runs from start up to stop (excluded); each
\* round defines var_name in self.env, then runs the body
ForInBody(node, val, stop, b) ==
    CASE b.sig \in {"ok", "continue"} -> ForInIter(node, BigAdd(val, Big(1)), stop, b.st)
      [] b.sig = "break" -> Ok(b.st, NullV)
      [] OTHER -> b

ForInIter(node, val, stop, st) ==
    IF ~BigLess(val, stop) THEN Ok(st, NullV)
    ELSE ForInBody(node, val, stop,
                   ExecBlock(node.body, 1,
                             [st EXCEPT !.envs =
                                 EnvDefine(st.envs, st.env, node.var_name, IntV(val),
                                           "", FALSE, TRUE).envs]))

\* ForInLoop: iterable the outcome of node.iterable
EvalForIn(node, iterable) ==
    IF iterable.sig # "ok" THEN iterable
    ELSE CASE iterable.val.t = "range" ->
                ForInIter(node, iterable.val.n,
                          IF iterable.val.s = "inclusive"
                          THEN BigAdd(iterable.val.m, Big(1)) ELSE iterable.val.m,
                          iterable.st)
           [] iterable.val.t \in {"int", "bool", "null", "fn"} ->
                Raise(iterable.st, "notiterable")

\* a case body that a break nested in one of its statements does not end
SwitchBodyNext_on(stmts, i, r) ==
    CASE r.sig \in {"ok", "break"} -> SwitchBody(stmts, i + 1, r.st)
      [] OTHER -> r

\* the statements of the matched case of a switch
SwitchBodyNext(stmts, i, r) ==
    CASE r.sig = "ok" -> SwitchBody(stmts, i + 1, r.st)
      [] r.sig = "break" -> Ok(r.st, NullV)
      [] OTHER -> r

SwitchBody(stmts, i, st) ==
    IF i > Len(stmts) THEN Ok(st, NullV)
    ELSE IF stmts[i].k = "BreakStatement" THEN Ok(st, NullV)
    ELSE IF stmts[i].k = "ContinueStatement" THEN SwitchBody(stmts, i + 1, st)
    ELSE SwitchBodyNext(stmts, i, Eval(stmts[i], st))

\* case i of a switch: cv is the outcome of its case value
SwitchCase(node, i, switch_val, cv) ==
    IF cv.sig # "ok" THEN cv
    ELSE IF PyEq(switch_val, cv.val)
    THEN Normal(SwitchBody(node.cases[i][2], 1, cv.st))
    ELSE SwitchCases(node, i + 1, switch_val, cv.st)

SwitchCases(node, i, switch_val, st) ==
    IF i > Len(node.cases) THEN Normal(ExecBlock(node.default, 1, st))
    ELSE SwitchCase(node, i, switch_val, Eval(node.cases[i][1], st))

EvalSwitch(node, sv) == IF sv.sig # "ok" THEN sv ELSE SwitchCases(node, 1, sv.val, sv.st)

\* an arm that fires whatever its guard gives
MatchGuard_any(node, i, value, g) ==
    IF g.sig # "ok" THEN g ELSE Normal(ExecBlock(node.arms[i][3], 1, g.st))

\* arm i of a match: m is the outcome of match_pattern, g of the guard
MatchGuard(node, i, value, g) ==
    IF g.sig # "ok" THEN g
    ELSE IF Truthy(g.val) THEN Normal(ExecBlock(node.arms[i][3], 1, g.st))
    ELSE MatchArms(node, i + 1, value, g.st)

MatchArm(node, i, value, m) ==
    IF ~m.m THEN MatchArms(node, i + 1, value, m.st)
    ELSE IF node.arms[i][2].k = "None" THEN MatchGuard(node, i, value, Ok(m.st, BoolV(TRUE)))
    ELSE MatchGuard(node, i, value, Eval(node.arms[i][2], m.st))

MatchArms(node, i, value, st) ==
    IF i > Len(node.arms) THEN Ok(st, NullV)
    ELSE MatchArm(node, i, value, match_pattern(node.arms[i][1], value, st))

EvalMatch(node, value) ==
    IF value.sig # "ok" THEN value ELSE MatchArms(node, 1, value.val, value.st)

\* raise BreakException(value) / raise ReturnException(value)
Signal(sig, value) ==
    IF value.sig # "ok" THEN value ELSE Res(value.st, sig, value.val, "")

\* [self.eval(arg) for arg in args]: acc collects the values
EvalArg(args, i, acc, a) ==
    IF a.sig # "ok" THEN [r |-> a, vals |-> acc]
    ELSE EvalArgs(args, i + 1, Append(acc, a.val), a.st)

EvalArgs(args, i, acc, st) ==
    IF i > Len(args) THEN [r |-> Ok(st, NullV), vals |-> acc]
    ELSE EvalArg(args, i, acc, Eval(args[i], st))

\* the parameter loop of eval_function_call: parameter i takes the supplied
\* argument, else its default, else None; arguments and defaults are
\* evaluated by self.eval while self.env is still the caller's environment
ParamDefined(params, args, i, func_env, st, d) ==
    IF d.err # "" THEN Raise(st, d.err)
    ELSE BindParams(params, args, i + 1, func_env, [st EXCEPT !.envs = d.envs])

BindParam(params, args, i, func_env, value) ==
    IF value.sig # "ok" THEN value
    ELSE ParamDefined(params, args, i, func_env, value.st,
                      EnvDefine(value.st.envs, func_env, params[i].param_name,
                                value.val, params[i].param_type, FALSE, TRUE))

BindParams(params, args, i, func_env, st) ==
    IF i > Len(params) THEN Ok(st, NullV)
    ELSE IF i <= Len(args) THEN BindParam(params, args, i, func_env, Eval(args[i], st))
    ELSE IF params[i].default.k # "None"
    THEN BindParam(params, args, i, func_env, Eval(params[i].default, st))
    ELSE BindParam(params, args, i, func_env, Ok(st, NullV))

\* for name, value_expr in node.kwargs.items(): func_env.set(name, value)
KwargSet(kwargs, i, func_env, st, u) ==
    IF u.err # "" THEN Raise(st, u.err)
    ELSE BindKwargs(kwargs, i + 1, func_env, [st EXCEPT !.envs = u.envs])

BindKwarg(kwargs, i, func_env, value) ==
    IF value.sig # "ok" THEN value
    ELSE KwargSet(kwargs, i, func_env, value.st,
                  EnvSet(value.st.envs, func_env, kwargs[i][1], value.val))

BindKwargs(kwargs, i, func_env, st) ==
    IF i > Len(kwargs) THEN Ok(st, NullV)
    ELSE BindKwarg(kwargs, i, func_env, Eval(kwargs[i][2], st))

\* the number of parameters whose default is None
RequiredParams(params) ==
    Cardinality({i \in 1..Len(params) : params[i].default.k = "None"})

\* an arity test that only rejects too many arguments
ArityOk_upper(params, provided_args) == provided_args <= Len(params)

\* the arity test of a user function
ArityOk(params, provided_args) ==
    ~(provided_args < RequiredParams(params) \/ provided_args > Len(params))

\* a frame hung under the caller's environment
CallFrameParent_caller(func, st) == st.env

\* Environment(parent=func.env)
CallFrameParent(func, st) == func.e

\* a call that lets the return signal of its body travel on
LeaveBody_through(prev_env, b) ==
    CASE b.sig = "ok" -> Ok([b.st EXCEPT !.env = prev_env], NullV)
      [] OTHER -> Res([b.st EXCEPT !.env = prev_env], b.sig, b.val, b.err)

\* the end of the body of a user function, b its outcome: None when it
\* ran to its end, e.value on ReturnException; the finally clause restores
\* self.env whatever leaves the body
LeaveBody(prev_env, b) ==
    CASE b.sig = "ok" -> Ok([b.st EXCEPT !.env = prev_env], NullV)
      [] b.sig = "return" -> Ok([b.st EXCEPT !.env = prev_env], b.val)
      [] OTHER -> Res([b.st EXCEPT !.env = prev_env], b.sig, b.val, b.err)

\* the body of a user function, run with self.env = func_env
RunBody(body, func_env, st) ==
    LeaveBody(st.env, ExecBlock(body, 1, [st EXCEPT !.env = func_env]))

CallKwargs(def, func_env, kw) ==
    IF kw.sig # "ok" THEN kw ELSE RunBody(def.body, func_env, kw.st)

CallBound(node, def, func_env, b) ==
    IF b.sig # "ok" THEN b
    ELSE CallKwargs(def, func_env, BindKwargs(node.kwargs, 1, func_env, b.st))

\* a call whose frame hangs under a copy of the captured environment
CallFunction_copy(node, func, def, st) ==
    IF ~ArityOk(def.params, Len(node.args)) THEN Raise(st, "arity")
    ELSE CallBound(node, def, Len(st.envs) + 2,
                   BindParams(def.params, node.args, 1, Len(st.envs) + 2,
                              [st EXCEPT !.envs =
                                  Append(Append(@, st.envs[func.e]),
                                         Environment(Len(st.envs) + 1))]))

\* a user-defined function: arity test, new frame, parameters, kwargs, body;
\* def holds func.params and func.body
CallFunction(node, func, def, st) ==
    IF ~ArityOk(def.params, Len(node.args)) THEN Raise(st, "arity")
    ELSE CallBound(node, def, Len(st.envs) + 1,
                   BindParams(def.params, node.args, 1, Len(st.envs) + 1,
                              [st EXCEPT !.envs =
                                  Append(@, Environment(CallFrameParent(func, st)))]))

\* the end of a lambda call, b the outcome of the body: self.env = prev_env
\* is the statement after result = self.eval(func.body), which an exception
\* from the body skips
LeaveLambda(prev_env, b) ==
    IF b.sig # "ok" THEN b ELSE Ok([b.st EXCEPT !.env = prev_env], b.val)

\* the body of a lambda, run with self.env = lambda_env
RunLambda(body, lambda_env, st) ==
    LeaveLambda(st.env, Eval(body, [st EXCEPT !.env = lambda_env]))

LambdaBound(def, lambda_env, b) ==
    IF b.sig # "ok" THEN b ELSE RunLambda(def.body, lambda_env, b.st)

\* a lambda: arity test, new frame under func.env, each argument evaluated
\* and defined (without a type) in turn, then the body
CallLambda(node, func, def, st) ==
    IF Len(node.args) # Len(def.params) THEN Raise(st, "arity")
    ELSE LambdaBound(def, Len(st.envs) + 1,
                     BindParams(def.params, node.args, 1, Len(st.envs) + 1,
                                [st EXCEPT !.envs = Append(@, Environment(func.e))]))

\* a host callable: a is the outcome of the argument list
CallNative(func, a) ==
    IF a.r.sig # "ok" THEN a.r ELSE Computed(a.r.st, NativeCall(func.s, a.vals))

\* a Function or a Lambda, def its params and body
CallDefined(node, func, def, st) ==
    IF func.t = "fn" THEN CallFunction(node, func, def, st)
    ELSE CallLambda(node, func, def, st)

\* eval_function_call once func = self.env.get(node.name) is known
CallValue(node, st, f) ==
    IF f.err # "" THEN Raise(st, f.err)
    ELSE IF f.v.t = "native" THEN CallNative(f.v, EvalArgs(node.args, 1, <<>>, st))
    ELSE IF f.v.t \in {"fn", "lambda"} THEN CallDefined(node, f.v, Defs[f.v.f], st)
    ELSE Raise(st, "notcallable")

eval_function_call(node, st) == CallValue(node, st, EnvGet(st.envs, st.env, node.name))

\* eval_binary_op: left, then right, then the operator
BinaryApply(node, left, right) ==
    IF right.sig # "ok" THEN right
    ELSE Computed(right.st, ApplyBinary(node.op, left.val, right.val))

BinaryRight_short(node, left) ==
    IF left.sig # "ok" THEN left
    ELSE IF node.op \in {"and", "&&"} /\ ~Truthy(left.val) THEN left
    ELSE IF node.op \in {"or", "||"} /\ Truthy(left.val) THEN left
    ELSE BinaryApply(node, left, Eval(node.right, left.st))

BinaryRight(node, left) ==
    IF left.sig # "ok" THEN left ELSE BinaryApply(node, left, Eval(node.right, left.st))

eval_binary_op(node, st) == BinaryRight(node, Eval(node.left, st))

IncDecSet_old(node, val, post, st, new_val) ==
    IF new_val.err # "" THEN Raise(st, new_val.err)
    ELSE Stored(st, EnvSet(st.envs, st.env, node.expr.name, new_val.v), val)

\* the update of ++/--: env.set of val + d (new_val the outcome of the
\* addition); the value returned is the new value for the prefix forms and
\* the old one for the postfix forms
IncDecSet(node, val, post, st, new_val) ==
    IF new_val.err # "" THEN Raise(st, new_val.err)
    ELSE Stored(st, EnvSet(st.envs, st.env, node.expr.name, new_val.v),
                IF post THEN val ELSE new_val.v)

IncDec(node, val, d, post, st) ==
    IF node.expr.k # "Identifier" THEN Raise(st, "nonvariable")
    ELSE IncDecSet(node, val, post, st, ApplyBinary("+", val, IntV(Big(d))))

\* eval_unary_op: e is the outcome of the operand
UnaryApply(node, e) ==
    IF e.sig # "ok" THEN e
    ELSE CASE node.op \in {"not", "!"} -> Ok(e.st, BoolV(~Truthy(e.val)))
           [] node.op = "+" -> IF IsNum(e.val) THEN Ok(e.st, IntV(e.val.n))
                               ELSE Raise(e.st, "pyerror")
           [] node.op = "-" -> IF IsNum(e.val) THEN Ok(e.st, IntV(BigNeg(e.val.n)))
                               ELSE Raise(e.st, "pyerror")
           [] node.op \in {"++", "--", "++_post", "--_post"} ->
                  IncDec(node, e.val, IF node.op \in {"++", "++_post"} THEN 1 ELSE -1,
                         node.op \in {"++_post", "--_post"}, e.st)
           [] OTHER -> Raise(e.st, "unknownop")

eval_unary_op(node, st) == UnaryApply(node, Eval(node.expr, st))

\* UIntLiteral: val & ((1 << node.bit_size) - 1)
EvalUInt(node, val) ==
    IF val.sig # "ok" THEN val
    ELSE IF ~IsNum(val.val) THEN Raise(val.st, "pyerror")
    ELSE Ok(val.st, IntV(mask_wrap(val.val.n, node.bit_size)))

\* IntLiteral, SizeIntLiteral (signed), PtrDiffLiteral: signed_wrap(val, bits)
EvalSInt(bits, val) ==
    IF val.sig # "ok" THEN val
    ELSE IF ~IsNum(val.val) THEN Raise(val.st, "pyerror")
    ELSE Ok(val.st, IntV(signed_wrap(val.val.n, bits)))

\* SizeIntLiteral (unsigned): val % (1 << 64)
EvalUSize(val) ==
    IF val.sig # "ok" THEN val
    ELSE IF ~IsNum(val.val) THEN Raise(val.st, "pyerror")
    ELSE Ok(val.st, IntV(BigModPow2(val.val.n, 64)))

\* VarDecl: value the outcome of node.value
EvalVarDecl(node, value) ==
    IF value.sig # "ok" THEN value
    ELSE Stored(value.st,
                EnvDefine(value.st.envs, value.st.env, node.name, value.val,
                          node.var_type, node.is_const, node.is_mut),
                value.val)

\* Assignment to a name: value the outcome of node.value
EvalAssignment(node, value) ==
    IF value.sig # "ok" THEN value
    ELSE Stored(value.st, EnvSet(value.st.envs, value.st.env, node.name, value.val),
                value.val)

\* AugmentedAssignment: current = self.env.get(name) is read first, then
\* the right side is evaluated, then the operator applied and the name set
AugSet(node, st, new_val) ==
    IF new_val.err # "" THEN Raise(st, new_val.err)
    ELSE Stored(st, EnvSet(st.envs, st.env, node.name, new_val.v), new_val.v)

AugApply(node, current, rhs) ==
    IF rhs.sig # "ok" THEN rhs
    ELSE AugSet(node, rhs.st, apply_augmented_op(current.v, node.operator, rhs.val))

EvalAugmented(node, st, current) ==
    IF current.err # "" THEN Raise(st, current.err)
    ELSE AugApply(node, current, Eval(node.value, st))

\* FunctionDef: func = Function(node, self.env), defined const under its name
EvalFunctionDef(node, st, func) ==
    Stored(st, EnvDefine(st.envs, st.env, Defs[node.id].name, func, "", TRUE, TRUE), func)

\* StructDef: self.env.structs[node.name] = node
EvalStructDef(node, st) ==
    Ok([st EXCEPT !.envs[st.env].structs =
           [n \in DOMAIN @ \cup {node.name} |-> IF n = node.name THEN node ELSE @[n]]],
       NullV)

\* The node classes that _eval_node tests for after StructDef.  The first
\* of these tests is isinstance(node, TypedefStruct), and neither
\* TypedefStruct nor UnionDef nor TypedefUnion is defined by
\* ast_nodes_enhanced (the module the interpreter imports its node classes
\* from): the test raises NameError for every node that reaches it, before
\* any of the branches below it is looked at.
PastStructDef == {"UnionDef", "StructLiteral", "EnumDef", "MemberAccess"}

\* the NameError of that test, turned into a RuntimeError by Interpreter.eval
TypedefStructTest(node, st) == Raise(st, "nameerror")

\* ------------------------------------------------------------------------
\* Texts: str.replace, the escape chain of print and printf, str(value) and
\* the % operator of a format text on a tuple of values
\* ------------------------------------------------------------------------
RECURSIVE Replace(_, _, _, _)
\* text.replace(old, new) from position i on: the occurrences of old from
\* the left, none overlapping
Replace(text, old, new, i) ==
    IF i > Len(text) THEN <<>>
    ELSE IF i + Len(old) - 1 <= Len(text) /\ SubSeq(text, i, i + Len(old) - 1) = old
    THEN new \o Replace(text, old, new, i + Len(old))
    ELSE <<text[i]>> \o Replace(text, old, new, i + 1)

\* .replace('\\n', '\n').replace('\\t', '\t').replace('\\r', '\r')
\* .replace('\\\\', '\\')
Escapes(text) ==
    Replace(Replace(Replace(Replace(text, <<"\\", "n">>, <<"\n">>, 1),
                            <<"\\", "t">>, <<"\t">>, 1),
                    <<"\\", "r">>, <<"\r">>, 1),
            <<"\\", "\\">>, <<"\\">>, 1)

RECURSIVE MagValue(_)
\* the number a magnitude stands for
MagValue(m) == IF m = <<>> THEN 0 ELSE m[1] + Limb * MagValue(Tail(m))

RECURSIVE Decimal(_)
\* the decimal digits of a natural number
Decimal(n) ==
    IF n < 10 THEN <<ToString(n)>> ELSE Decimal(n \div 10) \o <<ToString(n % 10)>>

\* str(n) of an int
IntText(b) == (IF b.neg THEN <<"-">> ELSE <<>>) \o Decimal(MagValue(b.mag))

\* str(value)
Display(v) ==
    CASE v.t = "int" -> IntText(v.n)
      [] v.t = "bool" -> IF v.n = Big(0) THEN <<"F", "a", "l", "s", "e">>
                         ELSE <<"T", "r", "u", "e">>
      [] v.t = "null" -> <<"N", "o", "n", "e">>
      [] v.t \in {"str", "write"} -> v.c

RECURSIVE FormatFrom(_, _, _, _, _)
\* fmt % values from position i of fmt and value k on, acc the text so far:
\* %s takes str(value), %d the digits of a number, %% is a percent sign; a
\* value too few or too many, a %d on a value that is no number, a % at the
\* end and any other character after % raise
FormatFrom(fmt, i, values, k, acc) ==
    IF i > Len(fmt)
    THEN IF k <= Len(values) THEN [v |-> <<>>, err |-> "pyerror"] ELSE [v |-> acc, err |-> ""]
    ELSE IF fmt[i] # "%" THEN FormatFrom(fmt, i + 1, values, k, Append(acc, fmt[i]))
    ELSE IF i = Len(fmt) THEN [v |-> <<>>, err |-> "pyerror"]
    ELSE IF fmt[i + 1] = "%" THEN FormatFrom(fmt, i + 2, values, k, Append(acc, "%"))
    ELSE IF fmt[i + 1] \notin {"s", "d"} \/ k > Len(values) THEN [v |-> <<>>, err |-> "pyerror"]
    ELSE IF fmt[i + 1] = "s" THEN FormatFrom(fmt, i + 2, values, k + 1, acc \o Display(values[k]))
    ELSE IF values[k].t \notin {"int", "bool"} THEN [v |-> <<>>, err |-> "pyerror"]
    ELSE FormatFrom(fmt, i + 2, values, k + 1, acc \o IntText(values[k].n))

Format(fmt, values) == FormatFrom(fmt, 1, values, 1, <<>>)

\* PrintStatement: value the outcome of node.expr; a str goes through the
\* replace chain, print adds the newline (an entry of out is a line)
EvalPrint(value) ==
    IF value.sig # "ok" THEN value
    ELSE Ok([value.st EXCEPT !.out =
                Append(@, IF value.val.t = "str"
                          THEN [value.val EXCEPT !.c = Escapes(@)] ELSE value.val)],
            NullV)

\* print(fmt % tuple(values), end=""): text is the outcome of the formatting
PrintfWrite(st, text) ==
    IF text.err # "" THEN Raise(st, text.err)
    ELSE Ok([st EXCEPT !.out = Append(@, Write(text.v))], NullV)

\* fmt.replace(...) fails on a value that is no str
PrintfArgs(fmt, a) ==
    IF a.r.sig # "ok" THEN a.r
    ELSE IF fmt.t # "str" THEN Raise(a.r.st, "pyerror")
    ELSE PrintfWrite(a.r.st, Format(Escapes(fmt.c), a.vals))

\* PrintfStatement: fmt the outcome of node.format_expr, then the arguments
EvalPrintf(node, fmt) ==
    IF fmt.sig # "ok" THEN fmt
    ELSE PrintfArgs(fmt.val, EvalArgs(node.args, 1, <<>>, fmt.st))

\* type(e).__name__ of the exception a signal is in the host, letter by
\* letter: every failure reaches a try block as the interpreter's
\* RuntimeError (Interpreter.eval wraps the others)
ClassName(sig) ==
    CASE sig = "error" -> <<"R", "u", "n", "t", "i", "m", "e", "E", "r", "r", "o", "r">>
      [] sig = "return" ->
           <<"R", "e", "t", "u", "r", "n", "E", "x", "c", "e", "p", "t", "i", "o", "n">>
      [] sig = "break" ->
           <<"B", "r", "e", "a", "k", "E", "x", "c", "e", "p", "t", "i", "o", "n">>
      [] sig = "continue" ->
           <<"C", "o", "n", "t", "i", "n", "u", "e", "E", "x", "c", "e", "p", "t", "i", "o", "n">>

\* Python's `a in b` on strings
StrIn(a, b) == \E i \in 0..Len(b) - Len(a) : SubSeq(b, i + 1, i + Len(a)) = a

\* exception_type is None or exception_type in str(type(e).__name__)
ClauseMatches_any(clause, sig) == TRUE

ClauseMatches(clause, sig) ==
    clause.exception_type = <<>> \/ StrIn(clause.exception_type, ClassName(sig))

\* the end of the finally block: f is its outcome, r the outcome of the
\* try and catch part, kept unless the finally block raised
FinallyDone(r, f) == IF f.sig # "ok" THEN f ELSE [r EXCEPT !.st = f.st]

\* finally: if node.finally_block: run it; r is the outcome so far
TryFinally_ok(node, r) ==
    IF Len(node.finally_block) = 0 \/ r.sig # "ok" THEN r
    ELSE FinallyDone(r, ExecBlock(node.finally_block, 1, r.st))

TryFinally(node, r) ==
    IF Len(node.finally_block) = 0 THEN r
    ELSE FinallyDone(r, ExecBlock(node.finally_block, 1, r.st))

\* the catch block of the matching clause: d is the outcome of defining
\* the catch variable
TryCatchRun(node, clause, d) ==
    IF d.sig # "ok" THEN TryFinally(node, d)
    ELSE TryFinally(node, ExecBlock(clause.catch_block, 1, d.st))

\* str(e) of the failure b: the text of a failure is kept as its kind and,
\* for a thrown value ("Runtime error: " + str(value) + ...), the number
\* thrown
ErrorText(b) == [StrV(b.err) EXCEPT !.n = b.val.n]

\* self.env.define(catch_var, str(e))
TryCatchVar(clause, b) ==
    IF clause.catch_var = "" THEN Ok(b.st, NullV)
    ELSE Stored(b.st, EnvDefine(b.st.envs, b.st.env, clause.catch_var, ErrorText(b), "",
                                FALSE, TRUE), NullV)

RECURSIVE TryClauses(_, _, _)
\* the catch clauses from clause i on; b is the outcome of the try block, an
\* exception; without a matching clause it is raised again
TryClauses(node, i, b) ==
    IF i > Len(node.catch_clauses) THEN TryFinally(node, b)
    ELSE IF ClauseMatches(node.catch_clauses[i], b.sig)
    THEN TryCatchRun(node, node.catch_clauses[i], TryCatchVar(node.catch_clauses[i], b))
    ELSE TryClauses(node, i + 1, b)

\* TryCatchStatement: b is the outcome of the try block
EvalTry(node, b) == IF b.sig = "ok" THEN TryFinally(node, b) ELSE TryClauses(node, 1, b)

\* ThrowStatement: raise Exception(str(value))
EvalThrow(value) ==
    IF value.sig # "ok" THEN value ELSE Res(value.st, "error", value.val, "thrown")

\* Interpreter._eval_node
Eval(node, st) ==
    CASE node.k = "Program" -> ExecProgram(node.statements, 1, NullV, st)
      [] node.k = "Literal" -> Ok(st, node.value)
      [] node.k = "Identifier" -> Computed(st, EnvGet(st.envs, st.env, node.name))
      [] node.k = "VarDecl" -> EvalVarDecl(node, Eval(node.value, st))
      [] node.k = "Assignment" -> EvalAssignment(node, Eval(node.value, st))
      [] node.k = "AugmentedAssignment" ->
           EvalAugmented(node, st, EnvGet(st.envs, st.env, node.name))
      [] node.k = "UIntLiteral" -> EvalUInt(node, Eval(node.value, st))
      [] node.k = "IntLiteral" -> EvalSInt(node.bits, Eval(node.value, st))
      [] node.k = "SizeIntLiteral" ->
           IF node.signed THEN EvalSInt(64, Eval(node.expr, st))
           ELSE EvalUSize(Eval(node.expr, st))
      [] node.k = "PtrDiffLiteral" -> EvalSInt(64, Eval(node.expr, st))
      [] node.k = "BinaryOp" -> eval_binary_op(node, st)
      [] node.k = "UnaryOp" -> eval_unary_op(node, st)
      [] node.k = "IfStatement" -> EvalIf(node, Eval(node.condition, st))
      [] node.k = "WhileLoop" -> WhileIter(node, st)
      [] node.k = "ForLoop" -> EvalFor(node, Eval(node.init, st))
      [] node.k = "ForInLoop" -> EvalForIn(node, Eval(node.iterable, st))
      [] node.k = "RangeLiteral" -> RangeStart(node, Eval(node.start, st))
      [] node.k = "SwitchStatement" -> EvalSwitch(node, Eval(node.expr, st))
      [] node.k = "MatchStatement" -> EvalMatch(node, Eval(node.expr, st))
      [] node.k = "BreakStatement" ->
           IF node.value.k = "None" THEN Res(st, "break", NullV, "")
           ELSE Signal("break", Eval(node.value, st))
      [] node.k = "ContinueStatement" -> Res(st, "continue", NullV, "")
      [] node.k = "ReturnStatement" ->
           IF node.expr.k = "None" THEN Res(st, "return", NullV, "")
           ELSE Signal("return", Eval(node.expr, st))
      [] node.k = "FunctionDef" -> EvalFunctionDef(node, st, Function(node.id, st.env))
      [] node.k = "FunctionCall" -> eval_function_call(node, st)
      [] node.k = "LambdaExpr" -> Ok(st, Lambda(node.id, st.env))
      [] node.k = "PrintStatement" -> EvalPrint(Eval(node.expr, st))
      [] node.k = "PrintfStatement" -> EvalPrintf(node, Eval(node.format_expr, st))
      [] node.k = "TryCatchStatement" -> EvalTry(node, ExecBlock(node.try_block, 1, st))
      [] node.k = "ThrowStatement" -> EvalThrow(Eval(node.expr, st))
      [] node.k = "StructDef" -> EvalStructDef(node, st)
      [] node.k \in PastStructDef -> TypedefStructTest(node, st)

\* ------------------------------------------------------------------------
\* The front end: lexer.remove_comments and lexer.tokenize on a source text
\* kept character by character, then Parser.parse on the token list.  A
\* token is the pair <<kind, text>>.  The texts hold digits, operator
\* characters, delimiters and white space: the alternatives of TOKEN_SPEC
\* for words, strings and the number forms with a letter or a point cannot
\* match in them and are left out.
\* ------------------------------------------------------------------------

\* the text w stands in code at position i
StartsWith(code, i, w) ==
    i + Len(w) - 1 <= Len(code) /\ SubSeq(code, i, i + Len(w) - 1) = w

\* the first position from i on where w stands, Len(code) + 1 without one
FirstAt(code, i, w) ==
    IF \E j \in i..Len(code) : StartsWith(code, j, w)
    THEN CHOOSE j \in i..Len(code) :
            StartsWith(code, j, w) /\ \A h \in i..j - 1 : ~StartsWith(code, h, w)
    ELSE Len(code) + 1

RECURSIVE StripBlock(_, _)
\* re.sub(r"/\*[\s\S]*?\*/", "", code) from position i on: a /* with a */
\* after it is dropped up to the first such */
StripBlock(code, i) ==
    IF i > Len(code) THEN <<>>
    ELSE IF StartsWith(code, i, <<"/", "*">>) /\ FirstAt(code, i + 2, <<"*", "/">>) <= Len(code)
    THEN StripBlock(code, FirstAt(code, i + 2, <<"*", "/">>) + 2)
    ELSE <<code[i]>> \o StripBlock(code, i + 1)

RECURSIVE StripLine(_, _, _)
\* re.sub(mark + r"[^\n]*", "", code) from position i on: mark and what
\* follows it on its line are dropped, the newline stays
StripLine(code, mark, i) ==
    IF i > Len(code) THEN <<>>
    ELSE IF StartsWith(code, i, mark)
    THEN StripLine(code, mark, FirstAt(code, i + Len(mark), <<"\n">>))
    ELSE <<code[i]>> \o StripLine(code, mark, i + 1)

\* lexer.remove_comments: block comments, then // comments, then # comments
remove_comments(code) ==
    StripLine(StripLine(StripBlock(code, 1), <<"/", "/">>, 1), <<"#">>, 1)

Digits == {"0", "1", "2", "3", "4", "5", "6", "7", "8", "9"}

\* the alternatives of the OP pattern, in the order the pattern lists them
OpAlternatives ==
    <<<<"<", "<", "<", "=">>, <<">", ">", ">", "=">>, <<"*", "*", "=">>, <<"/", "/", "=">>,
      <<"%", "=">>, <<"&", "=">>, <<"|", "=">>, <<"^", "=">>, <<"<", "<", "=">>,
      <<">", ">", "=">>, <<"<", "=", ">">>, <<"=", "=", "=">>, <<"!", "=", "=">>,
      <<"+", "=">>, <<"-", "=">>, <<"*", "=">>, <<"/", "=">>, <<"=", "=">>, <<"!", "=">>,
      <<"<", "=">>, <<">", "=">>, <<"<", "<">>, <<">", ">">>, <<"*", "*">>, <<"/", "/">>,
      <<"&", "&">>, <<"|", "|">>, <<":", ":">>, <<"-", ">">>, <<"=", ">">>,
      <<".", ".", ".">>, <<".", ".">>, <<":", "=">>, <<"+", "+">>, <<"-", "-">>, <<"+">>,
      <<"-">>, <<"*">>, <<"/">>, <<"%">>, <<"=">>, <<"<">>, <<">">>, <<"!">>, <<"&">>,
      <<"|">>, <<"^">>, <<"~">>, <<"?">>>>

\* the kinds of the one-character delimiters, "" for any other character
Delimiter(c) ==
    CASE c = "(" -> "LPAREN" [] c = ")" -> "RPAREN"
      [] c = "{" -> "LBRACE" [] c = "}" -> "RBRACE"
      [] c = "[" -> "LBRACKET" [] c = "]" -> "RBRACKET"
      [] c = ";" -> "SEMICOL" [] c = ":" -> "COLON" [] c = "," -> "COMMA"
      [] c = "." -> "DOT" [] c = "@" -> "AT" [] c = "#" -> "HASH" [] c = "$" -> "DOLLAR"
      [] OTHER -> ""

RECURSIVE RunEnd(_, _, _)
\* the last position of the run of characters of S that starts at i
RunEnd(code, i, S) ==
    IF i < Len(code) /\ code[i + 1] \in S THEN RunEnd(code, i + 1, S) ELSE i

\* the first alternative of the OP pattern that stands at i, <<>> if none
OpAt(code, i) ==
    IF \E a \in DOMAIN OpAlternatives : StartsWith(code, i, OpAlternatives[a])
    THEN OpAlternatives[CHOOSE a \in DOMAIN OpAlternatives :
                           /\ StartsWith(code, i, OpAlternatives[a])
                           /\ \A b \in 1..a - 1 : ~StartsWith(code, i, OpAlternatives[b])]
    ELSE <<>>

RECURSIVE Scan(_, _, _)
\* the loop over re.finditer(regex, code) from position i on: NUMBER is
\* \d+, then the OP alternatives, the delimiters, NEWLINE and SKIP (both
\* dropped), and MISMATCH, which raises SyntaxError
Scan(code, i, acc) ==
    IF i > Len(code) THEN [err |-> "", tokens |-> acc]
    ELSE IF code[i] \in Digits
    THEN Scan(code, RunEnd(code, i, Digits) + 1,
              Append(acc, <<"NUMBER", SubSeq(code, i, RunEnd(code, i, Digits))>>))
    ELSE IF OpAt(code, i) # <<>>
    THEN Scan(code, i + Len(OpAt(code, i)), Append(acc, <<"OP", OpAt(code, i)>>))
    ELSE IF Delimiter(code[i]) # ""
    THEN Scan(code, i + 1, Append(acc, <<Delimiter(code[i]), <<code[i]>> >>))
    ELSE IF code[i] = "\n" THEN Scan(code, i + 1, acc)
    ELSE IF code[i] \in {" ", "\t"} THEN Scan(code, RunEnd(code, i, {" ", "\t"}) + 1, acc)
    ELSE [err |-> "syntax", tokens |-> acc]

\* lexer.tokenize(code, track_position=False)
tokenize(code) == Scan(remove_comments(code), 1, <<>>)

\* ------------------------------------------------------------------------
\* parser_enhanced.Parser on a token list: pos counts from 1, a parse
\* method gives the node it built and the position after it, or the
\* ParseError it raised.  Statements that start with a keyword, calls,
\* member access, indexing and the literals other than numbers are not
\* among the token lists parsed here.
\* ------------------------------------------------------------------------
RECURSIVE Str(_)
\* the text of a token as a string
Str(text) == IF text = <<>> THEN "" ELSE Head(text) \o Str(Tail(text))

RECURSIVE DecimalValue(_)
\* int(tok[1]) of a NUMBER token
DecimalValue(text) ==
    IF text = <<>> THEN 0
    ELSE 10 * DecimalValue(SubSeq(text, 1, Len(text) - 1))
         + (CHOOSE d \in 0..9 : ToString(d) = text[Len(text)])

\* Parser.peek(offset): (None, None) past the end
peek(toks, pos, offset) ==
    IF pos + offset <= Len(toks) THEN <<toks[pos + offset][1], Str(toks[pos + offset][2])>>
    ELSE <<"", "">>

Parsed(node, pos) == [err |-> "", node |-> node, pos |-> pos]

ParseError(pos) == [err |-> "parse", node |-> NoNode, pos |-> pos]

\* the precedence chain: each method and the method it calls for its operands
NextTier ==
    [logic_or |-> "logic_and", logic_and |-> "logic_then", logic_then |-> "logic_nand",
     logic_nand |-> "comparison", comparison |-> "bitwise_or", bitwise_or |-> "bitwise_xor",
     bitwise_xor |-> "bitwise_and", bitwise_and |-> "shift", shift |-> "range_expr",
     addition |-> "multiplication", multiplication |-> "power"]

\* the operators each `while self.peek()[1] in ...` loop accepts
TierOps ==
    [logic_or |-> {"or", "xor", "||"}, logic_and |-> {"and", "&&"}, logic_then |-> {"then"},
     logic_nand |-> {"nand"},
     comparison |-> {"==", "!=", "<", ">", "<=", ">=", "in", "<=>", "===", "!=="},
     bitwise_or |-> {"|"}, bitwise_xor |-> {"^"}, bitwise_and |-> {"&"},
     shift |-> {"<<", ">>"}, addition |-> {"+", "-"},
     multiplication |-> {"*", "/", "%", "//"}]

\* logic_or and logic_and store || as or and && as and
OpName(op) == IF op = "||" THEN "or" ELSE IF op = "&&" THEN "and" ELSE op

AssignOps == {"=", "+=", "-=", "*=", "/=", "%=", "&=", "|=", "^=", "<<=", ">>=", "**="}

RECURSIVE Parse(_, _, _)
RECURSIVE BinaryWhile(_, _, _)
RECURSIVE PostfixWhile(_, _)
RECURSIVE Statements(_, _, _)

\* left = BinaryOp(left, op, right) inside the loop of a tier
BinaryBuilt(toks, method, left, op, right) ==
    IF right.err # "" THEN right
    ELSE BinaryWhile(toks, method, Parsed(BinaryOp(left.node, op, right.node), right.pos))

\* the loop of logic_or .. shift, addition and multiplication: while the
\* next token is an operator of the tier, parse the right operand with the
\* next method
BinaryWhile(toks, method, left) ==
    IF left.err # "" THEN left
    ELSE IF peek(toks, left.pos, 0)[2] \in TierOps[method]
    THEN BinaryBuilt(toks, method, left, OpName(peek(toks, left.pos, 0)[2]),
                     Parse(toks, left.pos + 1, NextTier[method]))
    ELSE left

\* Parser.ternary: c the condition, t and f the two values
TernaryFalse(c, t, f) ==
    IF f.err # "" THEN f ELSE Parsed(TernaryOp(c.node, t.node, f.node), f.pos)

TernaryTrue(toks, c, t) ==
    IF t.err # "" THEN t
    ELSE IF peek(toks, t.pos, 0)[1] # "COLON" THEN ParseError(t.pos)
    ELSE TernaryFalse(c, t, Parse(toks, t.pos + 1, "expr"))

ternary(toks, c) ==
    IF c.err # "" THEN c
    ELSE IF peek(toks, c.pos, 0)[2] = "?" THEN TernaryTrue(toks, c, Parse(toks, c.pos + 1, "expr"))
    ELSE c

\* Parser.range_expr: left .. right, left ..= right (the lexer has no ..=
\* token: it arrives as .. and =)
RangeBuilt(left, inclusive, right) ==
    IF right.err # "" THEN right
    ELSE Parsed(RangeLiteral(left.node, right.node, inclusive), right.pos)

range_expr(toks, left) ==
    IF left.err # "" THEN left
    ELSE IF peek(toks, left.pos, 0)[2] = ".."
    THEN IF peek(toks, left.pos + 1, 0)[2] = "="
         THEN RangeBuilt(left, TRUE, Parse(toks, left.pos + 2, "addition"))
         ELSE RangeBuilt(left, FALSE, Parse(toks, left.pos + 1, "addition"))
    ELSE IF peek(toks, left.pos, 0)[2] = "..="
    THEN RangeBuilt(left, TRUE, Parse(toks, left.pos + 1, "addition"))
    ELSE left

\* Parser.power: left ** right with right parsed by power itself
PowerBuilt(left, right) ==
    IF right.err # "" THEN right
    ELSE Parsed(BinaryOp(left.node, "**", right.node), right.pos)

\* a power whose right operand is one unary expression
power_left(toks, left) ==
    IF left.err # "" THEN left
    ELSE IF peek(toks, left.pos, 0)[2] = "**"
    THEN PowerBuilt(left, Parse(toks, left.pos + 1, "unary"))
    ELSE left

power(toks, left) ==
    IF left.err # "" THEN left
    ELSE IF peek(toks, left.pos, 0)[2] = "**"
    THEN PowerBuilt(left, Parse(toks, left.pos + 1, "power"))
    ELSE left

\* Parser.unary: an operand wrapped in the prefix operator op
UnaryBuilt(op, e) == IF e.err # "" THEN e ELSE Parsed(UnaryOp(op, e.node), e.pos)

AwaitBuilt(e) == IF e.err # "" THEN e ELSE Parsed(AwaitExpr(e.node), e.pos)

unary(toks, pos, tok) ==
    IF tok[1] = "OP" /\ tok[2] \in {"+", "-", "~", "!"}
    THEN UnaryBuilt(IF tok[2] = "!" THEN "not" ELSE tok[2], Parse(toks, pos + 1, "unary"))
    ELSE IF tok[2] = "not" THEN UnaryBuilt("not", Parse(toks, pos + 1, "unary"))
    ELSE IF tok[2] \in {"++", "--"} THEN UnaryBuilt(tok[2], Parse(toks, pos + 1, "unary"))
    ELSE IF tok[2] = "await" THEN AwaitBuilt(Parse(toks, pos + 1, "unary"))
    ELSE Parse(toks, pos, "postfix")

\* the loop of Parser.postfix, for the postfix ++ and --
PostfixWhile(toks, e) ==
    IF e.err # "" THEN e
    ELSE IF peek(toks, e.pos, 0)[2] \in {"++", "--"}
    THEN PostfixWhile(toks, Parsed(UnaryOp(peek(toks, e.pos, 0)[2] \o "_post", e.node),
                                   e.pos + 1))
    ELSE e

\* Parser.primary: a grouped expression, a number, an identifier
Grouped(toks, first) ==
    IF first.err # "" THEN first
    ELSE IF peek(toks, first.pos, 0)[1] # "RPAREN" THEN ParseError(first.pos)
    ELSE Parsed(first.node, first.pos + 1)

primary(toks, pos, tok) ==
    IF tok[1] = "LPAREN" THEN Grouped(toks, Parse(toks, pos + 1, "expr"))
    ELSE IF tok[1] = "NUMBER"
    THEN Parsed(Literal(IntV(Big(DecimalValue(toks[pos][2])))), pos + 1)
    ELSE IF tok[1] = "ID" THEN Parsed(Identifier(tok[2]), pos + 1)
    ELSE ParseError(pos)

\* Parser.assignment_or_expr: name op value, else an expression
AssignBuilt(name, op, value) ==
    IF value.err # "" THEN value
    ELSE IF op = "=" THEN Parsed(Assignment(name, value.node), value.pos)
    ELSE Parsed(AugmentedAssignment(name, op, value.node), value.pos)

assignment_or_expr(toks, pos) ==
    IF peek(toks, pos, 0)[1] = "ID" /\ peek(toks, pos, 1)[2] \in AssignOps
    THEN AssignBuilt(peek(toks, pos, 0)[2], peek(toks, pos, 1)[2], Parse(toks, pos + 2, "expr"))
    ELSE Parse(toks, pos, "expr")

\* the parse methods by name
Parse(toks, pos, method) ==
    CASE method = "expr" -> ternary(toks, Parse(toks, pos, "logic_or"))
      [] method \in DOMAIN NextTier ->
           BinaryWhile(toks, method, Parse(toks, pos, NextTier[method]))
      [] method = "range_expr" -> range_expr(toks, Parse(toks, pos, "addition"))
      [] method = "power" -> power(toks, Parse(toks, pos, "unary"))
      [] method = "unary" -> unary(toks, pos, peek(toks, pos, 0))
      [] method = "postfix" -> PostfixWhile(toks, primary(toks, pos, peek(toks, pos, 0)))

\* the loop of Parser.parse: statements up to the end of the tokens; s is
\* the statement just parsed
StatementParsed(toks, acc, s) ==
    IF s.err # "" THEN s ELSE Statements(toks, s.pos, Append(acc, s.node))

Statements(toks, pos, acc) ==
    IF pos > Len(toks) THEN Parsed(Program(acc), pos)
    ELSE StatementParsed(toks, acc, assignment_or_expr(toks, pos))

\* Parser(tokens).parse()
parse(toks) == Statements(toks, 1, <<>>)

\* ------------------------------------------------------------------------
\* The state machine: one Interpreter object driven one top-level statement
\* at a time.
\*   envs   the arena of Environment objects, envs[1] is global_env
\*   env    self.env
\*   out    what the last call of Interpreter.eval wrote
\*   last   the last call of Interpreter.eval: the statement, how the call
\*          ended (sig/err) and the value it returned or carried
\*   steps  the number of statements evaluated so far
\*   input  the integer the session was started with, which the integer
\*          constructor statements take as their operand
\*   code   the source text handed to tokenize, character by character
\*   tokens the token list of the Parser
\*   tree   what Parser.parse returned
\* ------------------------------------------------------------------------
VARIABLES envs, env, out, last, steps, input, code, tokens, tree

vars == <<envs, env, out, last, steps, input, code, tokens, tree>>

\* the names Interpreter.setup_builtins binds, each const
Builtins == {"len", "range", "str", "int", "float", "type", "abs", "min", "max", "sum"}

GlobalEnv ==
    [Environment(0) EXCEPT !.vars = [n \in Builtins |-> Binding(NativeV(n), "", TRUE, TRUE)]]

\* The environments still referenced: global_env, self.env, the value the
\* last call returned, and from each of them its parent and the captured
\* environment of every Function it binds.  An environment nothing refers
\* to is reclaimed by the host; the arena drops it when it is the last.
RECURSIVE Reach(_, _)
Reach(es, seen) ==
    LET more == {es[e].parent : e \in seen}
                \cup UNION {{es[e].vars[n].value.e : n \in DOMAIN es[e].vars} :
                             e \in seen}
        next == (seen \cup {x \in more : x # 0})
    IN  IF next = seen THEN seen ELSE Reach(es, next)

RECURSIVE Reclaim(_, _)
Reclaim(es, live) ==
    IF Len(es) \in live THEN es ELSE Reclaim(SubSeq(es, 1, Len(es) - 1), live)

Collect(es, cur, val) ==
    Reclaim(es, Reach(es, {1, cur} \cup (IF val.t \in {"fn", "lambda"} THEN {val.e} ELSE {})))

\* Interpreter.eval(stmt) on the running interpreter
\* the interpreter after the call: r is the outcome of the evaluation
Done(stmt, r) ==
    /\ envs' = Collect(r.st.envs, r.st.env, r.val)
    /\ env' = r.st.env
    /\ out' = r.st.out
    /\ last' = [err |-> r.err, sig |-> r.sig, val |-> r.val, stmt |-> stmt]

Run(stmt, maxSteps) ==
    /\ steps < maxSteps
    /\ Done(stmt, Eval(stmt, [env |-> env, envs |-> envs, out |-> <<>>]))
    /\ steps' = steps + 1
    /\ UNCHANGED <<input, code, tokens, tree>>

\* Interpreter.eval of one of the statements progs
RunOne(progs, maxSteps) == \E i \in DOMAIN progs : Run(progs[i], maxSteps)

Init ==
    /\ envs = <<GlobalEnv>>
    /\ env = 1
    /\ out = <<>>
    /\ last = [err |-> "", sig |-> "ok", val |-> NullV, stmt |-> NoNode]
    /\ steps = 0
    /\ input = Big(0)
    /\ code = <<>>
    /\ tokens = <<>>
    /\ tree = NoNode

\* the interpreter after construction, with the session's integer drawn from S
InitWith(S) ==
    /\ envs = <<GlobalEnv>>
    /\ env = 1
    /\ out = <<>>
    /\ last = [err |-> "", sig |-> "ok", val |-> NullV, stmt |-> NoNode]
    /\ steps = 0
    /\ input \in S
    /\ code = <<>>
    /\ tokens = <<>>
    /\ tree = NoNode

\* ------------------------------------------------------------------------
\* Integer constructors: uintN(v), intN(v), usize(v), isize(v), ptrdiff(v)
\* ------------------------------------------------------------------------
MaxAbs == 130

Widths == {8, 16, 32, 64, 128, 256}

\* the operands tried: the small integers and the integers next to the
\* powers of two at which a width wraps
CtorInputs ==
    {Big(i) : i \in -MaxAbs..MaxAbs} \cup {Big(300), Big(-300)}
    \cup {BigAdd(Shl1(w - h), Big(d)) : w \in Widths, h \in {0, 1}, d \in {-1, 0, 1}}
    \cup {BigNeg(BigAdd(Shl1(w - h), Big(d))) : w \in Widths, h \in {0, 1}, d \in {-1, 0, 1}}

\* Parser.primary, the type constructor branches.  A session of SpecCtor
\* evaluates one constructor on its integer.
CtorNode(typename, inner_expr) ==
    CASE typename \in IntTypes -> IntLiteral(inner_expr, TypeBits(typename))
      [] typename \in UIntTypes -> UIntLiteral(inner_expr, TypeBits(typename))
      [] typename \in {"usize", "isize"} -> SizeIntLiteral(inner_expr, typename = "isize")
      [] typename = "ptrdiff" -> PtrDiffLiteral(inner_expr)

UIntStep ==
    \E w \in Widths : Run(UIntLiteral(Literal(IntV(input)), w), 1)

IntStep ==
    \E w \in Widths : Run(IntLiteral(Literal(IntV(input)), w), 1)

SizeIntStep ==
    \E t \in {"usize", "isize"} : Run(CtorNode(t, Literal(IntV(input))), 1)

PtrDiffStep == Run(CtorNode("ptrdiff", Literal(IntV(input))), 1)

NextCtor == UIntStep \/ IntStep \/ SizeIntStep \/ PtrDiffStep

SpecCtor == InitWith(CtorInputs) /\ [][NextCtor]_vars

\* the bits and the signedness the last constructor evaluated stands for
CtorBits(node) ==
    CASE node.k = "UIntLiteral" -> node.bit_size
      [] node.k = "IntLiteral" -> node.bits
      [] OTHER -> 64

CtorSigned(node) ==
    CASE node.k = "UIntLiteral" -> FALSE
      [] node.k = "SizeIntLiteral" -> node.signed
      [] OTHER -> TRUE

CtorOperand(node) ==
    IF node.k \in {"UIntLiteral", "IntLiteral"} THEN node.value.value.n
    ELSE node.expr.value.n

IsCtor(node) ==
    node.k \in {"UIntLiteral", "IntLiteral", "SizeIntLiteral", "PtrDiffLiteral"}

\* 2^bits divides x
DividesPow2(x, bits) ==
    /\ \A i \in 1..(bits \div LimbBits) : LimbAt(x.mag, i) = 0
    /\ LimbAt(x.mag, bits \div LimbBits + 1) % (2 ^ (bits % LimbBits)) = 0

InUnsignedRange(x, bits) == ~x.neg /\ BigLess(x, Shl1(bits))

InSignedRange(x, bits) ==
    /\ BigLeq(BigNeg(Shl1(bits - 1)), x)
    /\ BigLess(x, Shl1(bits - 1))

\* C3: uintN(v) is v mod 2^N in 0..2^N-1, intN(v), isize(v) and ptrdiff(v)
\* are the integer congruent to v modulo 2^N in -2^(N-1)..2^(N-1)-1, usize(v)
\* is v mod 2^64; uint8(300) = 44, int8(130) = -126, usize(-1) = 2^64 - 1.
C3_CtorWraps ==
    IsCtor(last.stmt) =>
        LET v == CtorOperand(last.stmt)
            bits == CtorBits(last.stmt)
            r == last.val.n
        IN  /\ last.sig = "ok"
            /\ last.val.t = "int"
            /\ DividesPow2(BigSub(v, r), bits)
            /\ IF CtorSigned(last.stmt) THEN InSignedRange(r, bits)
                                        ELSE InUnsignedRange(r, bits)
            /\ (last.stmt.k = "UIntLiteral" /\ bits = 8 /\ v = Big(300)) => r = Big(44)
            /\ (last.stmt.k = "IntLiteral" /\ bits = 8 /\ v = Big(130)) => r = Big(-126)
            /\ (last.stmt.k = "SizeIntLiteral" /\ ~last.stmt.signed /\ v = Big(-1))
                  => r = BigSub(Shl1(64), Big(1))

C3_Witness ==
    /\ last.stmt.k = "IntLiteral"
    /\ last.stmt.bits = 8
    /\ CtorOperand(last.stmt) = Big(130)
    /\ last.val = IntV(Big(-126))

\* ------------------------------------------------------------------------
\* Constants: const declarations and the assignment forms
\* ------------------------------------------------------------------------
MaxVal == 2

Vals == 1..MaxVal

ConstSteps == 4

IncDecOps == {"++", "--", "++_post", "--_post"}

\* the function definitions are loaded by the first statement of a session
Load(keys, maxSteps) ==
    /\ steps = 0
    /\ Run(Program([i \in 1..Len(keys) |-> FunctionDef(keys[i])]), maxSteps)

LoadConst == Load(<<"setx", "addx", "incx", "decx", "mkconst", "shadow">>, ConstSteps)

ConstDeclStep ==
    /\ steps > 0
    /\ \E v \in Vals : Run(ConstDecl("x", Num(v)), ConstSteps)

DecStep ==
    /\ steps > 0
    /\ \E v \in Vals : Run(Dec("", "x", Num(v)), ConstSteps)

AssignStep ==
    /\ steps > 0
    /\ \E w \in Vals : Run(Assignment("x", Num(w)), ConstSteps)

AugAssignStep ==
    /\ steps > 0
    /\ \E w \in Vals, op \in {"+=", "-="} :
          Run(AugmentedAssignment("x", op, Num(w)), ConstSteps)

IncDecStep ==
    /\ steps > 0
    /\ \E op \in IncDecOps : Run(UnaryOp(op, Identifier("x")), ConstSteps)

CallSetterStep ==
    /\ steps > 0
    /\ \/ \E f \in {"setx", "addx", "shadow"}, w \in Vals :
             Run(Call(f, <<Num(w)>>), ConstSteps)
       \/ \E f \in {"incx", "decx"} : Run(Call(f, <<>>), ConstSteps)

\* dec h = mkconst(v): h holds the setter defined in the frame of mkconst
MakeHolderStep ==
    /\ steps > 0
    /\ \E v \in Vals : Run(Dec("", "h", Call("mkconst", <<Num(v)>>)), ConstSteps)

CallHolderStep ==
    /\ steps > 0
    /\ \E w \in Vals : Run(Call("h", <<Num(w)>>), ConstSteps)

NextConst ==
    \/ LoadConst
    \/ ConstDeclStep
    \/ DecStep
    \/ AssignStep
    \/ AugAssignStep
    \/ IncDecStep
    \/ CallSetterStep
    \/ MakeHolderStep
    \/ CallHolderStep

SpecConst == Init /\ [][NextConst]_vars

IsAssignForm(s) ==
    \/ s.k \in {"Assignment", "AugmentedAssignment"}
    \/ s.k = "UnaryOp" /\ s.op \in IncDecOps /\ s.expr.k = "Identifier"

AssignedName(s) == IF s.k = "UnaryOp" THEN s.expr.name ELSE s.name

\* The assignment a statement performs first, with the scope its name is
\* resolved from: the statement itself when it is an assignment form (scope
\* cur), the first statement of the callee when it is a call of a user
\* function whose body starts with an assignment form to a name that is no
\* parameter (the call frame binds the parameters only, so the name is
\* resolved from the environment the function captured).
FirstAssign(s, es, cur) ==
    IF IsAssignForm(s) THEN [name |-> AssignedName(s), is |-> TRUE, scope |-> cur]
    ELSE IF s.k = "FunctionCall" /\ EnvGet(es, cur, s.name).v.t = "fn"
    THEN LET func == EnvGet(es, cur, s.name).v
             def == Defs[func.f]
         IN  IF /\ ArityOk(def.params, Len(s.args))
                /\ Len(def.body) > 0
                /\ IsAssignForm(def.body[1])
                /\ \A i \in 1..Len(def.params) :
                      def.params[i].param_name # AssignedName(def.body[1])
             THEN [name |-> AssignedName(def.body[1]), is |-> TRUE, scope |-> func.e]
             ELSE [name |-> "", is |-> FALSE, scope |-> 0]
    ELSE [name |-> "", is |-> FALSE, scope |-> 0]

\* C1: once X is bound by const X = v, an assignment to X (X = w, X += w,
\* ++/--) made in the declaring scope or in a descendant scope that does not
\* redeclare X fails with the const-violation error and leaves every
\* binding, the one of X included, as it was; the const declaration itself
\* binds X to v.
C1_ConstAssignFails ==
    [][ /\ steps' = steps + 1
        /\ LET s == last'.stmt
               a == FirstAssign(s, envs, env)
               o == OwnerOf(envs, a.scope, a.name)
           IN  /\ (a.is /\ o # 0 /\ envs[o].vars[a.name].is_const)
                     => /\ last'.sig = "error"
                        /\ last'.err = "const"
                        /\ envs' = envs
               /\ (s.k = "VarDecl" /\ s.is_const /\ s.value.k = "Literal")
                     => /\ last'.sig = "ok"
                        /\ envs'[env].vars[s.name].value = s.value.value
                        /\ envs'[env].vars[s.name].is_const
        \/ UNCHANGED vars ]_vars

\* a setter called through h failed on the const x of the frame it captured
C1_Witness ==
    /\ last.stmt.k = "FunctionCall"
    /\ last.stmt.name = "h"
    /\ last.err = "const"
    /\ "h" \in DOMAIN envs[1].vars
    /\ envs[1].vars["h"].value.t = "fn"
    /\ envs[envs[1].vars["h"].value.e].vars["x"].is_const

\* ------------------------------------------------------------------------
\* Closures: mk() declares c in its call frame and hands out two functions
\* defined in that frame, the counter g (returned) and the reader r (left
\* in the global rd)
\* ------------------------------------------------------------------------
ClosureSteps == 5

Holders == {"h1", "h2"}

LoadClosure == Load(<<"mk">>, ClosureSteps)

\* dec h = mk()
MakeCounterStep ==
    /\ steps > 0
    /\ \E h \in Holders : Run(Dec("", h, Call("mk", <<>>)), ClosureSteps)

\* h()
CallCounterStep ==
    /\ steps > 0
    /\ \E h \in Holders : Run(Call(h, <<>>), ClosureSteps)

\* rd()
ReadCounterStep ==
    /\ steps > 0
    /\ Run(Call("rd", <<>>), ClosureSteps)

\* dec h2 = h1: a second holder of the function h1 holds
AliasStep ==
    /\ steps > 0
    /\ Run(Dec("", "h2", Identifier("h1")), ClosureSteps)

NextClosure ==
    \/ LoadClosure
    \/ MakeCounterStep
    \/ CallCounterStep
    \/ ReadCounterStep
    \/ AliasStep

SpecClosure == Init /\ [][NextClosure]_vars

\* name is bound in the global environment to a function defined by def
HoldsFn(name, def) ==
    /\ name \in DOMAIN envs[1].vars
    /\ envs[1].vars[name].value.t = "fn"
    /\ envs[1].vars[name].value.f = def

\* the value of c in frame fr
CounterOf(es, fr) == es[fr].vars["c"].value

\* C2: a function g defined in the call frame of mk and returned from it
\* counts in that frame: the frame starts with c = 0 and outlives the return
\* of mk, each call of g through any holder returns c + 1 and leaves it in
\* the frame (1 on the first call, 2 on the second), no other frame changes,
\* and the reader r defined in the same frame, and every other holder of g,
\* sees the count the last call left.
C2_ClosureCounter ==
    [][ steps' = steps + 1 =>
        LET s == last'.stmt
        IN  /\ (s.k = "FunctionCall" /\ s.name \in Holders /\ HoldsFn(s.name, "g")) =>
                  LET fr == envs[1].vars[s.name].value.e
                  IN  /\ last'.sig = "ok"
                      /\ last'.val = IntV(BigAdd(CounterOf(envs, fr).n, Big(1)))
                      /\ Len(envs') = Len(envs)
                      /\ CounterOf(envs', fr) = last'.val
                      /\ \A e \in (1..Len(envs)) \ {fr} : envs'[e] = envs[e]
            /\ (s.k = "FunctionCall" /\ s.name = "rd" /\ HoldsFn("rd", "r")) =>
                  /\ last'.sig = "ok"
                  /\ last'.val = CounterOf(envs, envs[1].vars["rd"].value.e)
                  /\ envs' = envs
            /\ (s.k = "VarDecl" /\ s.value.k = "FunctionCall" /\ HoldsFn("mk", "mk")) =>
                  /\ last'.sig = "ok"
                  /\ last'.val.t = "fn" /\ last'.val.f = "g"
                  /\ last'.val.e = Len(envs) + 1
                  /\ last'.val.e \in 1..Len(envs')
                  /\ CounterOf(envs', last'.val.e) = IntV(Big(0))
                  /\ {s.name, "rd"} \subseteq DOMAIN envs'[1].vars
                  /\ envs'[1].vars[s.name].value = last'.val
                  /\ envs'[1].vars["rd"].value = Function("r", last'.val.e)
                  /\ \A e \in 2..Len(envs) : envs'[e] = envs[e]
            /\ (s.k = "VarDecl" /\ s.value.k = "Identifier" /\ HoldsFn("h1", "g")) =>
                  /\ last'.sig = "ok"
                  /\ envs'[1].vars["h2"].value = envs[1].vars["h1"].value
                  /\ \A e \in 2..Len(envs') : envs'[e] = envs[e] ]_vars

\* the second call through a second holder of the same frame returned 2,
\* and the reader of that frame is the one in rd
C2_Witness ==
    /\ last.stmt = Call("h2", <<>>)
    /\ last.val = IntV(Big(2))
    /\ HoldsFn("h1", "g") /\ HoldsFn("h2", "g") /\ HoldsFn("rd", "r")
    /\ envs[1].vars["h1"].value = envs[1].vars["h2"].value
    /\ envs[1].vars["rd"].value.e = envs[1].vars["h2"].value.e
    /\ CounterOf(envs, envs[1].vars["h1"].value.e) = IntV(Big(2))

\* ------------------------------------------------------------------------
\* Sized-integer bindings: dec T x = v, the assignment forms on x, and a
\* typed parameter a kept alive by the setter defined in its frame
\* ------------------------------------------------------------------------
TypedSteps == 4

TypedTypes == {"uint8", "int8", "usize", "isize"}

\* the session's integer: small values, values just outside the 8-bit
\* ranges, and values outside the 64-bit ranges
TypedInputs ==
    {Big(i) : i \in {-300, -129, -1, 1, 128, 300}}
    \cup {Shl1(63), BigNeg(BigAdd(Shl1(64), Big(1)))}

LoadTyped == Load(<<"mkt", "mku">>, TypedSteps)

DecTypedStep ==
    /\ steps > 0
    /\ \E T \in TypedTypes : Run(Dec(T, "x", Literal(IntV(input))), TypedSteps)

AssignTypedStep ==
    /\ steps > 0
    /\ Run(Assignment("x", Literal(IntV(input))), TypedSteps)

AugTypedStep ==
    /\ steps > 0
    /\ \E op \in {"+=", "-="} :
          Run(AugmentedAssignment("x", op, Literal(IntV(input))), TypedSteps)

IncDecTypedStep ==
    /\ steps > 0
    /\ \E op \in {"++", "--_post"} : Run(UnaryOp(op, Identifier("x")), TypedSteps)

\* dec ht = mkt(v) / dec ht = mku(v)
MakeTypedStep ==
    /\ steps > 0
    /\ \E f \in {"mkt", "mku"} :
          Run(Dec("", "ht", Call(f, <<Literal(IntV(input))>>)), TypedSteps)

\* ht(v)
CallTypedStep ==
    /\ steps > 0
    /\ Run(Call("ht", <<Literal(IntV(input))>>), TypedSteps)

NextTyped ==
    \/ LoadTyped
    \/ DecTypedStep
    \/ AssignTypedStep
    \/ AugTypedStep
    \/ IncDecTypedStep
    \/ MakeTypedStep
    \/ CallTypedStep

SpecTyped == InitWith(TypedInputs) /\ [][NextTyped]_vars

\* x lies in the range of the sized-integer type T
InRangeOf(T, x) ==
    CASE T \in UIntTypes -> InUnsignedRange(x, TypeBits(T))
      [] T \in IntTypes -> InSignedRange(x, TypeBits(T))
      [] T = "usize" -> InUnsignedRange(x, 64)
      [] T \in {"isize", "ptrdiff"} -> InSignedRange(x, 64)

\* every binding of a sized-integer type holds an integer of its range
AllInRange ==
    \A e \in 1..Len(envs) : \A n \in DOMAIN envs[e].vars :
        envs[e].vars[n].var_type \in SizedTypes =>
            /\ envs[e].vars[n].value.t = "int"
            /\ InRangeOf(envs[e].vars[n].var_type, envs[e].vars[n].value.n)

\* C4: after every declaration, assignment, augmented assignment and ++/--,
\* each binding declared with a sized-integer type (a typed parameter
\* included) holds an integer of the range of its type, and a statement
\* that is no declaration leaves the declared type of every binding as it
\* was.
C4_TypedInRange ==
    [][ steps' = steps + 1 =>
        /\ AllInRange'
        /\ last'.stmt.k # "VarDecl" =>
              \A e \in 1..Len(envs) : \A n \in DOMAIN envs[e].vars :
                  /\ e <= Len(envs')
                  /\ n \in DOMAIN envs'[e].vars
                  /\ envs'[e].vars[n].var_type = envs[e].vars[n].var_type ]_vars

\* 300 assigned to a uint8 x is stored as 44, and the int8 parameter of the
\* frame ht closes over holds 300 wrapped to 44 as well
C4_Witness ==
    /\ last.stmt = Assignment("x", Literal(IntV(Big(300))))
    /\ last.sig = "ok"
    /\ envs[1].vars["x"].var_type = "uint8"
    /\ envs[1].vars["x"].value = IntV(Big(44))
    /\ "ht" \in DOMAIN envs[1].vars
    /\ envs[envs[1].vars["ht"].value.e].vars["a"].var_type = "int8"
    /\ envs[envs[1].vars["ht"].value.e].vars["a"].value = IntV(Big(44))

\* ------------------------------------------------------------------------
\* Scopes: declarations and assignments at top level and inside call
\* frames, and name resolution in a callee
\* ------------------------------------------------------------------------
ScopeSteps == 4

ScopeInputs == {Big(v) : v \in Vals}

\* the session's integer as a literal
Arg == Literal(IntV(input))

LoadScope ==
    Load(<<"setx", "shadow", "putz", "nest", "redecl", "twice", "peek", "caller", "deep">>,
         ScopeSteps)

\* dec n = 0
GlobalDecStep ==
    /\ steps > 0
    /\ \E n \in {"x", "z", "q"} : Run(Dec("", n, Num(0)), ScopeSteps)

\* const x = 0
GlobalConstStep ==
    /\ steps > 0
    /\ Run(ConstDecl("x", Num(0)), ScopeSteps)

\* n = v
GlobalAssignStep ==
    /\ steps > 0
    /\ \E n \in {"x", "z"} : Run(Assignment(n, Arg), ScopeSteps)

\* x
ReadGlobalStep ==
    /\ steps > 0
    /\ Run(Identifier("x"), ScopeSteps)

\* a call of a function that assigns
CallAssignStep ==
    /\ steps > 0
    /\ \E f \in {"putz", "setx", "nest", "shadow"} : Run(Call(f, <<Arg>>), ScopeSteps)

\* a call of a function that declares x in its frame
CallDeclStep ==
    /\ steps > 0
    /\ \E f \in {"redecl", "twice"} : Run(Call(f, <<Arg>>), ScopeSteps)

\* a call that reads q in peek: directly, from a function with a local q,
\* and from a function nested in one
CallPeekStep ==
    /\ steps > 0
    /\ \/ Run(Call("peek", <<>>), ScopeSteps)
       \/ \E f \in {"caller", "deep"} : Run(Call(f, <<Arg>>), ScopeSteps)

NextScope ==
    \/ LoadScope
    \/ GlobalDecStep
    \/ GlobalConstStep
    \/ GlobalAssignStep
    \/ ReadGlobalStep
    \/ CallAssignStep
    \/ CallDeclStep
    \/ CallPeekStep

SpecScope == InitWith(ScopeInputs) /\ [][NextScope]_vars

\* C5: an assignment x = v executed in scope S updates only the nearest
\* scope on the chain of S that owns x; when no scope of the chain owns x the
\* binding is created in S itself and in no ancestor.  S is the global
\* environment for a top-level assignment and the new call frame for the
\* assignment a called function starts with.
C5_AssignScope ==
    [][ steps' = steps + 1 =>
        LET s == last'.stmt
            a == FirstAssign(s, envs, env)
            o == OwnerOf(envs, a.scope, a.name)
            v == IF s.k = "Assignment" THEN s.value.value ELSE s.args[1].value
        IN  /\ (s.k \in {"Assignment", "FunctionCall"} /\ a.is /\ last'.sig = "ok") =>
                  IF o # 0
                  THEN /\ envs'[o].vars[a.name].value = v
                       /\ \A e \in (1..Len(envs)) \ {o} : envs'[e] = envs[e]
                  ELSE IF s.k = "Assignment"
                  THEN /\ a.name \in DOMAIN envs'[env].vars
                       /\ envs'[env].vars[a.name].value = v
                  ELSE \A e \in 1..Len(envs) : envs'[e] = envs[e]
            /\ (s.k = "FunctionCall" /\ s.name \in {"nest", "shadow"}
                  /\ HoldsFn(s.name, s.name)) =>
                  /\ last'.sig = "ok"
                  /\ last'.val = s.args[1].value
                  /\ envs' = envs ]_vars

\* C6: a declaration dec x = v executed in scope S creates or overwrites x
\* in S only: at top level the global binding becomes (v, flags of the
\* declaration) and nothing else changes; in a call frame every binding of
\* the ancestors keeps its value and flags, a lookup of x from the frame or
\* from a function nested in it returns v, and a lookup from the global
\* scope still returns the global value.
C6_DeclScope ==
    [][ steps' = steps + 1 =>
        LET s == last'.stmt
        IN  /\ (s.k = "VarDecl" /\ s.value.k = "Literal") =>
                  /\ last'.sig = "ok"
                  /\ s.name \in DOMAIN envs'[1].vars
                  /\ envs'[1].vars[s.name] =
                        Binding(s.value.value, "", s.is_const, s.is_mut)
                  /\ \A n \in DOMAIN envs[1].vars \ {s.name} :
                        /\ n \in DOMAIN envs'[1].vars
                        /\ envs'[1].vars[n] = envs[1].vars[n]
                  /\ \A e \in 2..Len(envs') : envs'[e] = envs[e]
            /\ (s.k = "FunctionCall" /\ s.name \in {"redecl", "twice", "shadow"}
                  /\ HoldsFn(s.name, s.name)) =>
                  /\ last'.sig = "ok"
                  /\ last'.val = s.args[1].value
                  /\ envs' = envs
            /\ (s.k = "Identifier" /\ s.name \in DOMAIN envs[1].vars) =>
                  /\ last'.sig = "ok"
                  /\ last'.val = envs[1].vars[s.name].value
                  /\ envs' = envs ]_vars

\* redecl declared x = v in its frame over a const global x = 0: the
\* nested reader returned v and the global x is the const 0 still
C6_Witness ==
    /\ last.stmt.k = "FunctionCall"
    /\ last.stmt.name = "redecl"
    /\ last.val = last.stmt.args[1].value
    /\ last.val # IntV(Big(0))
    /\ "x" \in DOMAIN envs[1].vars
    /\ envs[1].vars["x"] = Binding(IntV(Big(0)), "", TRUE, FALSE)

\* C7: the body of a user function resolves names through a frame whose
\* parent is the environment the function was defined in, never through
\* the caller's: peek, defined at top level, reads the global q when there
\* is one and fails with the undefined-variable error when there is none,
\* whether it is called from top level, from a function that has a local
\* q, or from a function nested in one.
C7_LexicalScope ==
    [][ steps' = steps + 1 =>
        LET s == last'.stmt
        IN  (s.k = "FunctionCall" /\ s.name \in {"peek", "caller", "deep"}
               /\ HoldsFn(s.name, s.name)) =>
               /\ IF "q" \in DOMAIN envs[1].vars
                  THEN last'.sig = "ok" /\ last'.val = envs[1].vars["q"].value
                  ELSE last'.sig = "error" /\ last'.err = "undefined"
               /\ envs' = envs ]_vars

\* caller(v) declared q = v and called peek, which found no q
C7_Witness ==
    /\ last.stmt.k = "FunctionCall"
    /\ last.stmt.name = "caller"
    /\ last.stmt.args[1].value # IntV(Big(0))
    /\ last.sig = "error"
    /\ last.err = "undefined"
    /\ "q" \notin DOMAIN envs[1].vars

\* ------------------------------------------------------------------------
\* Calls: the arity test, the binding of parameters and defaults
\* ------------------------------------------------------------------------
CallSteps == 3

MaxArgs == 3

\* the argument list tick(), ..., tick() of length k: each argument counts
\* its own evaluation in the global n
Ticks(k) == [i \in 1..k |-> Call("tick", <<>>)]

LoadCall ==
    Load(<<"tick", "f0", "f1", "f12", "f02", "fd", "fz", "callz", "sub">>, CallSteps)

\* dec n = 0, and globals named like the parameter a and the local z
DecCounterStep ==
    /\ steps > 0
    /\ \E g \in {"n", "a", "z"} : Run(Dec("", g, Num(0)), CallSteps)

\* f(tick(), ..., tick()) with 0 to MaxArgs arguments
ArityCallStep ==
    /\ steps > 0
    /\ \E f \in {"f0", "f1", "f12", "f02"}, k \in 0..MaxArgs :
          Run(Call(f, Ticks(k)), CallSteps)

\* calls that use a default or bind two parameters
DefaultCallStep ==
    /\ steps > 0
    /\ \/ Run(Call("fd", <<Arg>>), CallSteps)
       \/ Run(Call("callz", <<Arg>>), CallSteps)
       \/ Run(Call("sub", Ticks(2)), CallSteps)
       \/ Run(Call("sub", <<Arg, Num(0)>>), CallSteps)

NextCall ==
    \/ LoadCall
    \/ DecCounterStep
    \/ ArityCallStep
    \/ DefaultCallStep

SpecCall == InitWith(ScopeInputs) /\ [][NextCall]_vars

\* the parameters without a default and the parameters of f0, f1, f12, f02
Required == [f0 |-> 0, f1 |-> 1, f12 |-> 1, f02 |-> 0]

Total == [f0 |-> 0, f1 |-> 1, f12 |-> 2, f02 |-> 2]

\* tick can run: it is defined and the global n it counts in exists
CanTick == HoldsFn("tick", "tick") /\ "n" \in DOMAIN envs[1].vars

\* C8: a call of a user function with k arguments fails with the arity
\* error when k is below the number of parameters without a default or above
\* the number of parameters, and then no argument is evaluated (the counter
\* n and every other binding are as before) and no statement of the body
\* runs (nothing is printed); for every k in the range, the arguments being
\* evaluable, each argument is evaluated once and the body runs (it prints).
C8_Arity ==
    [][ steps' = steps + 1 =>
        LET s == last'.stmt
        IN  (s.k = "FunctionCall" /\ s.name \in DOMAIN Required
               /\ HoldsFn(s.name, s.name)) =>
               IF Len(s.args) < Required[s.name] \/ Len(s.args) > Total[s.name]
               THEN /\ last'.sig = "error"
                    /\ last'.err = "arity"
                    /\ envs' = envs
                    /\ out' = <<>>
               ELSE CanTick =>
                    /\ last'.sig = "ok"
                    /\ out' = <<IntV(Big(0))>>
                    /\ envs'[1].vars["n"].value =
                          IntV(BigAdd(envs[1].vars["n"].value.n, Big(Len(s.args)))) ]_vars

\* f12 was called with three arguments while tick could run: the arity
\* error, and the counter is still 0
C8_Witness ==
    /\ last.stmt = Call("f12", Ticks(3))
    /\ last.err = "arity"
    /\ CanTick
    /\ envs[1].vars["n"].value = IntV(Big(0))

\* C9: parameters bind left to right; the default expression of a
\* parameter that got no argument is evaluated in the new call frame, so it
\* reads the parameters bound before it (fd(v) returns v + 1) and does not
\* see the local variables of the caller (the default z + 1 of fz, called
\* from callz which has a local z, fails on z when there is no global z).
C9_DefaultsInFrame ==
    [][ steps' = steps + 1 =>
        LET s == last'.stmt
        IN  /\ (s.k = "FunctionCall" /\ s.name = "sub" /\ HoldsFn("sub", "sub")
                  /\ s.args = Ticks(2) /\ CanTick) =>
                  last'.sig = "ok" /\ last'.val = IntV(Big(-1))
            /\ (s.k = "FunctionCall" /\ s.name = "sub" /\ HoldsFn("sub", "sub")
                  /\ s.args # Ticks(2)) =>
                  last'.sig = "ok" /\ last'.val = s.args[1].value
            /\ (s.k = "FunctionCall" /\ s.name = "fd" /\ HoldsFn("fd", "fd")) =>
                  /\ last'.sig = "ok"
                  /\ last'.val = IntV(BigAdd(s.args[1].value.n, Big(1)))
            /\ (s.k = "FunctionCall" /\ s.name = "callz" /\ HoldsFn("callz", "callz")
                  /\ "z" \notin DOMAIN envs[1].vars) =>
                  /\ last'.sig = "error"
                  /\ last'.err = "undefined" ]_vars

\* ------------------------------------------------------------------------
\* return inside nested statements (SpecReturn)
\* ------------------------------------------------------------------------

ReturnSteps == 3

\* the argument of the session: the values the functions compare n with,
\* and values on both sides of them
ReturnInputs == {Big(v) : v \in 0..MaxVal + 2}

ReturnFns == {"r_if", "r_while", "r_for", "r_forin", "r_switch", "r_match", "r_deep"}

\* for k in 0..=2 { t += r_forin(k) }
TopLoop ==
    ForInLoop("k", RangeLiteral(Num(0), Num(2), TRUE),
              <<AugmentedAssignment("t", "+=", Call("r_forin", <<Identifier("k")>>))>>)

LoadReturn ==
    Load(<<"r_if", "r_while", "r_for", "r_forin", "r_switch", "r_match", "r_deep",
           "sum3">>, ReturnSteps)

\* dec t = 0
DecTotalStep ==
    /\ steps > 0
    /\ Run(Dec("", "t", Num(0)), ReturnSteps)

\* f(n) for each of the functions that return from inside nested statements
ReturnCallStep ==
    /\ steps > 0
    /\ \E f \in ReturnFns : Run(Call(f, <<Arg>>), ReturnSteps)

\* sum3(): the returning call sits in a loop of the calling function
SumStep ==
    /\ steps > 0
    /\ Run(Call("sum3", <<>>), ReturnSteps)

\* the returning call sits in a loop at top level
TopLoopStep ==
    /\ steps > 0
    /\ Run(TopLoop, ReturnSteps)

NextReturn ==
    \/ LoadReturn
    \/ DecTotalStep
    \/ ReturnCallStep
    \/ SumStep
    \/ TopLoopStep

SpecReturn == InitWith(ReturnInputs) /\ [][NextReturn]_vars

\* the value of the return statement that f(n) reaches first, null when
\* the body of f ends without reaching one
Returned(f, n) ==
    CASE f = "r_if" -> IF n = Big(1) THEN IntV(Big(10)) ELSE NullV
      [] f = "r_while" -> IF n \in {Big(1), Big(2), Big(3)} THEN IntV(n) ELSE IntV(Big(30))
      [] f \in {"r_for", "r_forin"} ->
            IF n \in {Big(0), Big(1), Big(2)} THEN IntV(n) ELSE IntV(Big(100))
      [] f = "r_switch" ->
            IF n = Big(1) THEN IntV(Big(10))
            ELSE IF n = Big(2) THEN IntV(Big(20)) ELSE IntV(Big(30))
      [] f = "r_match" ->
            IF n = Big(1) THEN IntV(Big(10))
            ELSE IF n = Big(2) THEN IntV(Big(20)) ELSE IntV(Big(99))
      [] f = "r_deep" -> IF n = Big(1) THEN IntV(Big(3)) ELSE IntV(Big(50))

\* what f(n) prints before it reaches that return statement; the
\* statements after a return statement print 9
PrintedBefore(f, n) ==
    IF \/ f = "r_if" /\ n # Big(1)
       \/ f = "r_match" /\ n \notin {Big(1), Big(2)}
    THEN <<IntV(Big(8))>>
    ELSE <<>>

\* C10: return e, inside any nesting of if, while, for, for-in, switch and
\* match statements of a function body, ends exactly that call with the
\* value of e: the call evaluates to the value of the first return statement
\* reached, nothing after that statement runs (no 9 is printed, the loop
\* variable i keeps the value it had at the return), the environment of the
\* caller is current again, and a loop around the call goes on (sum3 and the
\* top-level loop add up the three returned values 0, 1, 2); a body that ends
\* without return yields null.
C10_ReturnEndsCall ==
    [][ steps' = steps + 1 =>
        LET s == last'.stmt
        IN  /\ (s.k = "FunctionCall" /\ s.name \in ReturnFns
                  /\ HoldsFn(s.name, s.name)) =>
                  /\ last'.sig = "ok"
                  /\ last'.val = Returned(s.name, s.args[1].value.n)
                  /\ out' = PrintedBefore(s.name, s.args[1].value.n)
                  /\ env' = env
                  /\ (s.name = "r_for" /\ last'.val # IntV(Big(100))) =>
                        envs'[1].vars["i"].value = last'.val
            /\ (s.k = "FunctionCall" /\ s.name = "sum3" /\ HoldsFn("sum3", "sum3")
                  /\ HoldsFn("r_for", "r_for")) =>
                  /\ last'.sig = "ok"
                  /\ last'.val = IntV(Big(3))
                  /\ out' = <<>>
                  /\ env' = env
            /\ (s = TopLoop /\ HoldsFn("r_forin", "r_forin")
                  /\ "t" \in DOMAIN envs[1].vars) =>
                  /\ last'.sig = "ok"
                  /\ out' = <<>>
                  /\ env' = env
                  /\ envs'[1].vars["t"].value =
                        IntV(BigAdd(envs[1].vars["t"].value.n, Big(3)))
                  /\ envs'[1].vars["k"].value = IntV(Big(2)) ]_vars

\* r_deep(1) returned 3 from a match arm in a switch case in a for loop in
\* a while loop, the loop variable i stopped at 2 and nothing was printed
C10_Witness ==
    /\ last.stmt = Call("r_deep", <<Num(1)>>)
    /\ last.sig = "ok"
    /\ last.val = IntV(Big(3))
    /\ out = <<>>
    /\ env = 1
    /\ envs[1].vars["i"].value = IntV(Big(2))

\* ------------------------------------------------------------------------
\* break and continue in loops and across calls (SpecLoop)
\* ------------------------------------------------------------------------

LoopSteps == 3

\* the integer the session's integer stands for
InputNat == CHOOSE v \in 0..MaxVal + 2 : Big(v) = input

Ints(s) == [i \in 1..Len(s) |-> IntV(Big(s[i]))]

\* if (name == n) { stmt }
IfEq(name, stmt) == IfStatement(BinaryOp(Identifier(name), "==", Arg), <<stmt>>, <<>>)

\* for (name = 0; name < bound; name += 1) { body }
CountFor(name, bound, body) ==
    ForLoop(Assignment(name, Num(0)), BinaryOp(Identifier(name), "<", Num(bound)),
            AugmentedAssignment(name, "+=", Num(1)), body)

\* c = 0  while (c < 3) { c += 1  f()  print(c) }
WhileCall(f) ==
    Program(<<Assignment("c", Num(0)),
              WhileLoop(BinaryOp(Identifier("c"), "<", Num(3)),
                        <<AugmentedAssignment("c", "+=", Num(1)), Call(f, <<>>),
                          PrintStatement(Identifier("c"))>>)>>)

\* for (i = 0; i < 3; i += 1) { f()  print(i) }
ForCall(f) == CountFor("i", 3, <<Call(f, <<>>), PrintStatement(Identifier("i"))>>)

\* for k in 0..3 { f()  print(k) }
ForInCall(f) ==
    ForInLoop("k", RangeLiteral(Num(0), Num(3), FALSE),
              <<Call(f, <<>>), PrintStatement(Identifier("k"))>>)

\* for (i = 0; i < 3; i += 1) { if (i == n) { continue }  print(i) }
ContinueFor == CountFor("i", 3, <<IfEq("i", ContinueStatement), PrintStatement(Identifier("i"))>>)

\* for (i = 0; i < 3; i += 1) { if (i == n) { break }  print(i) }
BreakFor ==
    CountFor("i", 3, <<IfEq("i", BreakStatement(NoNode)), PrintStatement(Identifier("i"))>>)

\* for (i = 0; i < 2; i += 1) {
\*     for (j = 0; j < 3; j += 1) { if (j == n) { break }  print(j) }
\*     print(i + 10) }
BreakInner ==
    CountFor("i", 2,
             <<CountFor("j", 3, <<IfEq("j", BreakStatement(NoNode)),
                                  PrintStatement(Identifier("j"))>>),
               PrintStatement(BinaryOp(Identifier("i"), "+", Num(10)))>>)

\* for k in 0..2 { w = 0  while (true) { w += 1  if (w > n) { break } }  print(w) }
BreakInnerWhile ==
    ForInLoop("k", RangeLiteral(Num(0), Num(2), FALSE),
              <<Assignment("w", Num(0)),
                WhileLoop(Literal(BoolV(TRUE)),
                          <<AugmentedAssignment("w", "+=", Num(1)),
                            IfStatement(BinaryOp(Identifier("w"), ">", Arg),
                                        <<BreakStatement(NoNode)>>, <<>>)>>),
                PrintStatement(Identifier("w"))>>)

\* for (i = 0; i < 2; i += 1) {
\*     for k in 0..3 { if (k == n) { continue }  print(k) }
\*     print(i + 10) }
ContinueInner ==
    CountFor("i", 2,
             <<ForInLoop("k", RangeLiteral(Num(0), Num(3), FALSE),
                         <<IfEq("k", ContinueStatement), PrintStatement(Identifier("k"))>>),
               PrintStatement(BinaryOp(Identifier("i"), "+", Num(10)))>>)

LoadLoop == Load(<<"brk", "cnt", "own">>, LoopSteps)

\* a loop whose body calls f
CallLoopStep ==
    /\ steps > 0
    /\ \E f \in {"brk", "cnt", "own"} :
          \/ Run(WhileCall(f), LoopSteps)
          \/ Run(ForCall(f), LoopSteps)
          \/ Run(ForInCall(f), LoopSteps)

\* a loop with continue or break in its own body
OwnLoopStep ==
    /\ steps > 0
    /\ \/ Run(ContinueFor, LoopSteps)
       \/ Run(BreakFor, LoopSteps)
       \/ Run(BreakInner, LoopSteps)
       \/ Run(BreakInnerWhile, LoopSteps)
       \/ Run(ContinueInner, LoopSteps)

\* brk() or cnt() at top level
BareCallStep ==
    /\ steps > 0
    /\ \E f \in {"brk", "cnt"} : Run(Call(f, <<>>), LoopSteps)

NextLoop ==
    \/ LoadLoop
    \/ CallLoopStep
    \/ OwnLoopStep
    \/ BareCallStep

SpecLoop == InitWith(ReturnInputs) /\ [][NextLoop]_vars

Below(n) == LET Test(v) == v < n IN SelectSeq(<<0, 1, 2>>, Test)

Except(n) == LET Test(v) == v # n IN SelectSeq(<<0, 1, 2>>, Test)

GlobalIs(es, name, v) == es[1].vars[name].value = IntV(Big(v))

\* C11: a break or continue executed by a called function outside every
\* loop of its own body does not reach the loop of the caller: a loop whose
\* body calls brk() or cnt() and then prints still makes all three rounds,
\* prints in each, and ends with its variable at 3.
C11_SignalStaysInCall ==
    [][ steps' = steps + 1 =>
        \A f \in {"brk", "cnt"} : HoldsFn(f, f) =>
           /\ last'.stmt = WhileCall(f) =>
                 /\ last'.sig = "ok"
                 /\ out' = Ints(<<1, 2, 3>>)
                 /\ GlobalIs(envs', "c", 3)
           /\ last'.stmt = ForCall(f) =>
                 /\ last'.sig = "ok"
                 /\ out' = Ints(<<0, 1, 2>>)
                 /\ GlobalIs(envs', "i", 3)
           /\ last'.stmt = ForInCall(f) =>
                 /\ last'.sig = "ok"
                 /\ out' = Ints(<<0, 1, 2>>)
                 /\ GlobalIs(envs', "k", 2) ]_vars

\* C12: in a C-style for loop continue skips the rest of the round and the
\* update still runs before the next test (the loop with continue at i = n
\* prints 0, 1, 2 without n and ends with i = 3; for n = 1 it prints 0 then
\* 2); break ends only the innermost loop around it (the outer loop makes
\* both its rounds and prints 10 and 11, the inner loop stops at n each
\* time), and the update does not run after a break.
C12_ContinueAndBreak ==
    [][ steps' = steps + 1 =>
        /\ last'.stmt = ContinueFor =>
              /\ last'.sig = "ok"
              /\ out' = Ints(Except(InputNat))
              /\ GlobalIs(envs', "i", 3)
        /\ last'.stmt = BreakFor =>
              /\ last'.sig = "ok"
              /\ out' = Ints(Below(InputNat))
              /\ GlobalIs(envs', "i", Len(Below(InputNat)))
        /\ last'.stmt = BreakInner =>
              /\ last'.sig = "ok"
              /\ out' = Ints(Below(InputNat) \o <<10>> \o Below(InputNat) \o <<11>>)
              /\ GlobalIs(envs', "i", 2)
              /\ GlobalIs(envs', "j", Len(Below(InputNat)))
        /\ last'.stmt = BreakInnerWhile =>
              /\ last'.sig = "ok"
              /\ out' = Ints(<<InputNat + 1, InputNat + 1>>)
              /\ GlobalIs(envs', "k", 1)
        /\ last'.stmt = ContinueInner =>
              /\ last'.sig = "ok"
              /\ out' = Ints(Except(InputNat) \o <<10>> \o Except(InputNat) \o <<11>>)
              /\ GlobalIs(envs', "i", 2) ]_vars

\* the loop of the spec's example ran with n = 1: it printed 0 then 2
C12_Witness ==
    /\ last.stmt = ContinueFor
    /\ input = Big(1)
    /\ out = Ints(<<0, 2>>)
    /\ GlobalIs(envs, "i", 3)

\* ------------------------------------------------------------------------
\* switch and match (SpecBranch)
\* ------------------------------------------------------------------------

BranchSteps == 3

P(i) == PrintStatement(Num(i))

IfTrue(c, stmt) == IfStatement(c, <<stmt>>, <<>>)

\* switch (n) { case 1: print(1) print(11)
\*              case 2: print(2) if (true) { break } print(22)
\*              case 2: print(23)
\*              case 3: print(3) break 0 print(33)
\*              default: print(0) }
\* print(99)
SwitchMany ==
    Program(<<SwitchStatement(Arg,
                 << <<Num(1), <<P(1), P(11)>> >>,
                    <<Num(2), <<P(2), IfTrue(Literal(BoolV(TRUE)), BreakStatement(NoNode)),
                                P(22)>> >>,
                    <<Num(2), <<P(23)>> >>,
                    <<Num(3), <<P(3), BreakStatement(Num(0)), P(33)>> >> >>,
                 <<P(0)>>),
              P(99)>>)

\* switch (n) { case 1: print(1)  case 2: print(2) }  print(99)
SwitchNoDefault ==
    Program(<<SwitchStatement(Arg, << <<Num(1), <<P(1)>> >>, <<Num(2), <<P(2)>> >> >>, <<>>),
              P(99)>>)

\* switch (n) { default: print(0) print(10)
\*              case 1: print(1) if (n == 1) { break } print(11)
\*              case 2: print(2) break }
\* print(99)
SwitchDefaultFirst ==
    Program(<<SwitchStatement(Arg,
                 << <<Num(1), <<P(1), IfTrue(BinaryOp(Arg, "==", Num(1)),
                                             BreakStatement(NoNode)),
                                P(11)>> >>,
                    <<Num(2), <<P(2), BreakStatement(NoNode)>> >> >>,
                 <<P(0), P(10)>>),
              P(99)>>)

\* match n { 0 => { print(0) }  1 => { print(1) }  1 => { print(11) }
\*           x if x == 3 => { print(3) }  x if x > 2 => { print(4) } }
\* print(99)
MatchMany ==
    Program(<<MatchStatement(Arg,
                 << <<Num(0), NoNode, <<P(0)>> >>,
                    <<Num(1), NoNode, <<P(1)>> >>,
                    <<Num(1), NoNode, <<P(11)>> >>,
                    <<Identifier("x"), BinaryOp(Identifier("x"), "==", Num(3)), <<P(3)>> >>,
                    <<Identifier("x"), BinaryOp(Identifier("x"), ">", Num(2)), <<P(4)>> >> >>),
              P(99)>>)

\* match 42 { 0 => { print(0) }  1 => { print(1) } }  print(99)
Match42 ==
    Program(<<MatchStatement(Num(42),
                 << <<Num(0), NoNode, <<P(0)>> >>, <<Num(1), NoNode, <<P(1)>> >> >>),
              P(99)>>)

\* match n { 2 => { print(2) }  _ if n == 3 => { print(3) }  _ => { print(7) }
\*           _ => { print(8) } }
\* print(99)
MatchWild ==
    Program(<<MatchStatement(Arg,
                 << <<Num(2), NoNode, <<P(2)>> >>,
                    <<Identifier("_"), BinaryOp(Arg, "==", Num(3)), <<P(3)>> >>,
                    <<Identifier("_"), NoNode, <<P(7)>> >>,
                    <<Identifier("_"), NoNode, <<P(8)>> >> >>),
              P(99)>>)

SwitchStep == RunOne(<<SwitchMany, SwitchNoDefault, SwitchDefaultFirst>>, BranchSteps)

\* match n { v if v > 2 => { print(1) }  _ => { print(2) } }
MatchBind ==
    MatchStatement(Arg,
        << <<Identifier("v"), BinaryOp(Identifier("v"), ">", Num(2)), <<P(1)>> >>,
           <<Identifier("_"), NoNode, <<P(2)>> >> >>)

MatchStep == RunOne(<<MatchMany, Match42, MatchWild, MatchBind>>, BranchSteps)

\* dec x = n
DecX == Dec("", "x", Arg)

\* if (true) { dec x = n }
IfDecl == IfStatement(Literal(BoolV(TRUE)), <<DecX>>, <<>>)

\* if (false) { print(1) } else { dec x = n }
ElseDecl == IfStatement(Literal(BoolV(FALSE)), <<P(1)>>, <<DecX>>)

\* c = 0  while (c < 1) { dec x = n  c += 1 }
WhileDecl ==
    Program(<<Assignment("c", Num(0)),
              WhileLoop(BinaryOp(Identifier("c"), "<", Num(1)),
                        <<DecX, AugmentedAssignment("c", "+=", Num(1))>>)>>)

\* for (i = 0; i < 1; i += 1) { dec x = n }
ForDecl == CountFor("i", 1, <<DecX>>)

\* for k in 0..1 { dec x = n }
ForInDecl == ForInLoop("k", RangeLiteral(Num(0), Num(1), FALSE), <<DecX>>)

\* fnc declx ...  print(declx(n))
CallDecl == Program(<<FunctionDef("declx"), PrintStatement(Call("declx", <<Arg>>))>>)

BlockDecls == <<IfDecl, ElseDecl, WhileDecl, ForDecl, ForInDecl>>

BlockDeclStep == RunOne(BlockDecls \o <<CallDecl>>, BranchSteps)

NextBranch ==
    \/ SwitchStep
    \/ MatchStep
    \/ BlockDeclStep

SpecBranch == InitWith(ReturnInputs) /\ [][NextBranch]_vars

\* C13: a switch runs the body of at most one case, the first in textual
\* order whose value equals the switch value (of the two cases with value 2
\* only the first prints); a break in that body, direct or inside an if,
\* ends the case (22, 33 and 11 are not printed); without a break the rest
\* of the same body runs and nothing of another case (1 then 11); the
\* default body runs exactly when no case value matched, wherever it is
\* written; the statement after the switch runs in every case (99).
C13_SwitchOneCase ==
    [][ steps' = steps + 1 =>
        /\ last'.sig = "ok"
        /\ last'.stmt = SwitchMany =>
              out' = Ints(CASE InputNat = 1 -> <<1, 11, 99>>
                            [] InputNat = 2 -> <<2, 99>>
                            [] InputNat = 3 -> <<3, 99>>
                            [] OTHER -> <<0, 99>>)
        /\ last'.stmt = SwitchNoDefault =>
              out' = Ints(CASE InputNat = 1 -> <<1, 99>>
                            [] InputNat = 2 -> <<2, 99>>
                            [] OTHER -> <<99>>)
        /\ last'.stmt = SwitchDefaultFirst =>
              out' = Ints(CASE InputNat = 1 -> <<1, 99>>
                            [] InputNat = 2 -> <<2, 99>>
                            [] OTHER -> <<0, 10, 99>>) ]_vars

\* the switch on 2 ran the first case 2 up to the break inside its if
C13_Witness ==
    /\ last.stmt = SwitchMany
    /\ input = Big(2)
    /\ out = Ints(<<2, 99>>)

\* C14: a match tries its arms top to bottom and runs the body of exactly
\* the first arm whose pattern matches and whose guard is absent or true,
\* and no later arm (of two arms 1, or two wildcard arms, only the first
\* prints; the binding arm with guard x == 3 is passed over for 4, which
\* the next arm takes); when no arm qualifies (42 against 0 and 1, 2
\* against the arms of MatchMany) no body runs, nothing is raised and the
\* next statement runs (99).
C14_MatchFirstArm ==
    [][ steps' = steps + 1 =>
        /\ last'.sig = "ok"
        /\ last'.stmt = MatchMany =>
              out' = Ints(CASE InputNat \in {0, 1} -> <<InputNat, 99>>
                            [] InputNat = 2 -> <<99>>
                            [] InputNat = 3 -> <<3, 99>>
                            [] OTHER -> <<4, 99>>)
        /\ last'.stmt = Match42 => out' = Ints(<<99>>)
        /\ last'.stmt = MatchWild =>
              out' = Ints(CASE InputNat \in {2, 3} -> <<InputNat, 99>>
                            [] OTHER -> <<7, 99>>) ]_vars

\* 42 was matched against the arms 0 and 1: only the next statement printed
C14_Witness ==
    /\ last.stmt = Match42
    /\ last.sig = "ok"
    /\ out = Ints(<<99>>)

\* ------------------------------------------------------------------------
\* structs, unions and enums (SpecData)
\* ------------------------------------------------------------------------

DataSteps == 2

\* struct NAME { x: int = 1, y: int }
PointDef(name) == StructDef(name, << <<"x", "int", Num(1)>>, <<"y", "int", NoNode>> >>)

\* a union U with the fields a and b
UnionU == UnionDef("U", << <<"a", "int", NoNode>>, <<"b", "int", NoNode>> >>)

\* enum E { A, B(int) }
EnumE == EnumDef("E", << <<"A", <<>> >>, <<"B", <<"int">> >> >>)

Read(name, member) == PrintStatement(MemberAccess(Identifier(name), member))

\* dec p = P { fields }  print(p.m) for each m of reads
StructProgram(fields, named, reads) ==
    Program(<<Dec("", "p", StructLiteral("P", fields, named))>>
            \o [i \in 1..Len(reads) |-> Read("p", reads[i])])

\* P { y: n }, P { x: n, y: 7 }, P { n, 7 } (positional)
OnlyY == StructProgram(<< <<"y", Arg>> >>, TRUE, <<"x", "y">>)

BothXY == StructProgram(<< <<"x", Arg>>, <<"y", Num(7)>> >>, TRUE, <<"x", "y">>)

Positional == StructProgram(<<Arg, Num(7)>>, FALSE, <<"x", "y">>)

\* the definition of the union U, dec u = U { fields }, print(u.m)
UnionProgram(fields, reads) ==
    Program(<<UnionU, Dec("", "u", StructLiteral("U", fields, TRUE))>>
            \o [i \in 1..Len(reads) |-> Read("u", reads[i])])

OneField == UnionProgram(<< <<"a", Arg>> >>, <<"a">>)

OtherField == UnionProgram(<< <<"a", Arg>> >>, <<"a", "b">>)

NoField == UnionProgram(<<>>, <<>>)

TwoFields == UnionProgram(<< <<"a", Arg>>, <<"b", Arg>> >>, <<>>)

\* a struct U { x: int = 1, y: int } and the union U: dec u = U { a: n },
\* print(u.a), print(u.x)
Shadowed ==
    Program(<<PointDef("U"), UnionU, Dec("", "u", StructLiteral("U", << <<"a", Arg>> >>, TRUE)),
              Read("u", "a"), Read("u", "x")>>)

\* dec q = Q { a: n } where nothing defines Q
Undefined == Program(<<Dec("", "q", StructLiteral("Q", << <<"a", Arg>> >>, TRUE))>>)

\* enum E { A, B(int) }  dec a = E_A()  dec b = E_B(n)  print(7)
EnumCalls ==
    Program(<<EnumE, Dec("", "a", Call("E_A", <<>>)), Dec("", "b", Call("E_B", <<Arg>>)),
              PrintStatement(Num(7))>>)

\* enum E { A, B(int) }  E_A = n
EnumAssign == Program(<<EnumE, Assignment("E_A", Arg)>>)

StructDefStep == \E name \in {"P", "U"} : Run(PointDef(name), DataSteps)

EnumDefStep == Run(EnumE, DataSteps)

StructLiteralStep ==
    RunOne(<<OnlyY, BothXY, Positional, Undefined>>, DataSteps)

UnionLiteralStep ==
    RunOne(<<OneField, OtherField, NoField, TwoFields, Shadowed>>, DataSteps)

EnumUseStep ==
    RunOne(<<EnumCalls, EnumAssign, Call("E_A", <<>>), Assignment("E_A", Arg)>>, DataSteps)

NextData ==
    \/ StructDefStep
    \/ EnumDefStep
    \/ StructLiteralStep
    \/ UnionLiteralStep
    \/ EnumUseStep

SpecData == InitWith(ReturnInputs) /\ [][NextData]_vars

Failed(l) == l.sig = "error"

C16_UnionShadowsStruct ==
    [][ steps' = steps + 1 =>
        /\ last'.stmt = Shadowed => Failed(last') /\ out' = <<IntV(input)>>
        /\ (last'.stmt = OnlyY /\ "P" \in DOMAIN envs[1].structs) =>
              last'.sig = "ok" /\ "p" \in DOMAIN envs'[1].vars
        /\ last'.stmt = Undefined => Failed(last') ]_vars

\* C17: a struct value holds the declared defaults overridden by the
\* supplied fields: with struct P { x: int = 1, y: int } defined, P { y: n }
\* has x = 1 and y = n, P { x: n, y: 7 } has x = n, and the positional
\* P { n, 7 } has x = n and y = 7; reading a field gives that entry.
C17_StructDefaults ==
    [][ (steps' = steps + 1 /\ "P" \in DOMAIN envs[1].structs) =>
        /\ last'.stmt = OnlyY =>
              last'.sig = "ok" /\ out' = <<IntV(Big(1)), IntV(input)>>
        /\ last'.stmt \in {BothXY, Positional} =>
              last'.sig = "ok" /\ out' = <<IntV(input), IntV(Big(7))>> ]_vars

\* C18: enum E { A, B(int) } binds E_A and E_B as constants in the
\* defining scope and no variable E, and records E among the enums of that
\* scope; E_A() and E_B(n) can then be called, and assigning to E_A fails
\* with the const error.
C18_EnumConstructors ==
    [][ steps' = steps + 1 =>
        /\ last'.stmt = EnumE =>
              /\ last'.sig = "ok"
              /\ \A c \in {"E_A", "E_B"} :
                    c \in DOMAIN envs'[1].vars /\ envs'[1].vars[c].is_const
              /\ "E" \notin DOMAIN envs'[1].vars
              /\ "E" \in DOMAIN envs'[1].enums
        /\ last'.stmt = EnumCalls => last'.sig = "ok" /\ out' = <<IntV(Big(7))>>
        /\ last'.stmt = EnumAssign => Failed(last') /\ last'.err = "const" ]_vars

\* ------------------------------------------------------------------------
\* operand evaluation of binary operators (SpecOperand)
\* ------------------------------------------------------------------------

OperandSteps == 2

\* the operators of eval_binary_op that the operator table covers
BinaryOps == {"+", "-", "==", "!=", "<", ">", "<=", ">=", "and", "&&", "or", "||"}

\* the operand values: the falsy 0 and the session's input
Operands == {Num(0), Arg}

Lhs(x) == Call("lhs", <<x>>)

Rhs(y) == Call("rhs", <<y>>)

\* fnc lhs ...  fnc rhs ...  dec r = lhs(x) op rhs(y)  print(r)
OperandProgram(op, x, y) ==
    Program(<<FunctionDef("lhs"), FunctionDef("rhs"),
              Dec("", "r", BinaryOp(Lhs(x), op, Rhs(y))),
              PrintStatement(Identifier("r"))>>)

\* dec r = (lhs(x) op1 rhs(y)) op2 rhs(x)  print(r)
NestedProgram(op1, op2, x, y) ==
    Program(<<FunctionDef("lhs"), FunctionDef("rhs"),
              Dec("", "r", BinaryOp(BinaryOp(Lhs(x), op1, Rhs(y)), op2, Rhs(x))),
              PrintStatement(Identifier("r"))>>)

OperandStep ==
    \E op \in BinaryOps, x \in Operands, y \in Operands :
        Run(OperandProgram(op, x, y), OperandSteps)

NestedStep ==
    \E op1 \in {"and", "or"}, op2 \in {"and", "or"}, x \in Operands, y \in Operands :
        Run(NestedProgram(op1, op2, x, y), OperandSteps)

NextOperand ==
    \/ OperandStep
    \/ NestedStep

SpecOperand == InitWith(ReturnInputs) /\ [][NextOperand]_vars

\* the number an operand expression stands for in this session
OperandNat(x) == IF x = Arg THEN InputNat ELSE 0

\* Python's `l and r` and `l or r` on integers
PyAnd(l, r) == IF l = 0 THEN l ELSE r

PyOr(l, r) == IF l = 0 THEN r ELSE l

PyLogic(op, l, r) == IF op \in {"and", "&&"} THEN PyAnd(l, r) ELSE PyOr(l, r)

\* C19: for every binary operator, `and` and `or` included, the left
\* operand is evaluated and then the right one, whatever the left value:
\* lhs(x) op rhs(y) always prints 1 then 2 before the result, also for a
\* falsy x with `and` and a truthy x with `or`, and in a nested expression
\* every operand call prints (1, 2, 2).
C19_BothOperands ==
    [][ steps' = steps + 1 =>
        /\ last'.sig = "ok"
        /\ \A op \in BinaryOps, x \in Operands, y \in Operands :
              last'.stmt = OperandProgram(op, x, y) =>
                 /\ Len(out') = 3
                 /\ SubSeq(out', 1, 2) = Ints(<<1, 2>>)
                 /\ op \in {"and", "&&", "or", "||"} =>
                       out'[3] = IntV(Big(PyLogic(op, OperandNat(x), OperandNat(y))))
        /\ \A op1 \in {"and", "or"}, op2 \in {"and", "or"}, x \in Operands, y \in Operands :
              last'.stmt = NestedProgram(op1, op2, x, y) =>
                 out' = Ints(<<1, 2, 2,
                               PyLogic(op2, PyLogic(op1, OperandNat(x), OperandNat(y)),
                                       OperandNat(x))>>) ]_vars

\* a falsy left operand of `and` and the right operand still evaluated
C19_Witness ==
    /\ last.stmt = OperandProgram("and", Num(0), Arg)
    /\ input = Big(3)
    /\ out = Ints(<<1, 2, 0>>)

\* ------------------------------------------------------------------------
\* try / catch / finally (SpecTry)
\* ------------------------------------------------------------------------

TrySteps == 2

\* the try blocks below fail for the input 2
Thrown == InputNat = 2

\* if (n == 2) { throw n }
ThrowIf == IfStatement(BinaryOp(Arg, "==", Num(2)), <<ThrowStatement(Arg)>>, <<>>)

\* finally { print(9) }
Finally9 == <<PrintStatement(Num(9))>>

CatchAll(block) == CatchClause(<<>>, "", block)

\* catch (Exception e) { print(2) }
CatchException ==
    CatchClause(<<"E", "x", "c", "e", "p", "t", "i", "o", "n">>, "e", <<PrintStatement(Num(2))>>)

\* catch (Error e) { print(4) }
CatchError == CatchClause(<<"E", "r", "r", "o", "r">>, "e", <<PrintStatement(Num(4))>>)

\* the try statement, then print(5)
Then5(try) == Program(<<try, PrintStatement(Num(5))>>)

\* try { print(1)  if (n == 2) { throw n }  print(3) } catch { print(2) }
\* finally { print(9) }
TryCaught ==
    Then5(TryCatchStatement(<<PrintStatement(Num(1)), ThrowIf, PrintStatement(Num(3))>>,
                            <<CatchAll(<<PrintStatement(Num(2))>>)>>, Finally9))

\* try { if (n == 2) { throw n }  print(3) } catch (Exception e) { print(2) }
\* catch (Error e) { print(4) } finally { print(9) }
TryTyped ==
    Then5(TryCatchStatement(<<ThrowIf, PrintStatement(Num(3))>>,
                            <<CatchException, CatchError>>, Finally9))

\* the same with the clause catch (Exception e) only: RuntimeError does not
\* contain "Exception"
TryPropagates ==
    Then5(TryCatchStatement(<<ThrowIf, PrintStatement(Num(3))>>, <<CatchException>>, Finally9))

\* try { if (n == 2) { throw n }  print(3) } finally { print(9) }
TryNoCatch == Then5(TryCatchStatement(<<ThrowIf, PrintStatement(Num(3))>>, <<>>, Finally9))

\* try { ... } catch { print(2)  print(nope)  print(4) } finally { print(9) }
TryCatchFails ==
    Then5(TryCatchStatement(<<ThrowIf, PrintStatement(Num(3))>>,
                            <<CatchAll(<<PrintStatement(Num(2)), PrintStatement(Identifier("nope")),
                                         PrintStatement(Num(4))>>)>>,
                            Finally9))

\* try { print(1) } finally { print(9)  if (n == 2) { throw n }  print(6) }
TryFinallyFails ==
    Then5(TryCatchStatement(<<PrintStatement(Num(1))>>, <<>>,
                            <<PrintStatement(Num(9)), ThrowIf, PrintStatement(Num(6))>>))

\* for k in 0..3 { try { if (k == n) { stmt }  print(k) } clauses finally { print(9) } }
TryLoop(stmt, clauses) ==
    ForInLoop("k", RangeLiteral(Num(0), Num(3), FALSE),
              <<TryCatchStatement(<<IfEq("k", stmt), PrintStatement(Identifier("k"))>>,
                                  clauses, Finally9)>>)

TryLoopThrow == TryLoop(ThrowStatement(Arg), <<CatchAll(<<PrintStatement(Num(2))>>)>>)

TryLoopBreak == TryLoop(BreakStatement(NoNode), <<>>)

\* fnc t_ret ...  print(t_ret(n))
TryReturn == Program(<<FunctionDef("t_ret"), PrintStatement(Call("t_ret", <<Arg>>))>>)

TryCatchStep == RunOne(<<TryCaught, TryTyped>>, TrySteps)

TryFailStep ==
    RunOne(<<TryPropagates, TryNoCatch, TryCatchFails, TryFinallyFails>>, TrySteps)

TryLoopStep == RunOne(<<TryLoopThrow, TryLoopBreak>>, TrySteps)

TryReturnStep == Run(TryReturn, TrySteps)

\* catch (Runtime a) { print(a) }
CatchRuntime ==
    CatchClause(<<"R", "u", "n", "t", "i", "m", "e">>, "a", <<PrintStatement(Identifier("a"))>>)

\* catch (Foo a) { print(6) }
CatchFoo == CatchClause(<<"F", "o", "o">>, "a", <<PrintStatement(Num(6))>>)

\* catch (b) { print(8) }
CatchB == CatchClause(<<>>, "b", <<PrintStatement(Num(8))>>)

\* try { print(1)  throw n  print(3) } catch (Runtime a) { print(a) }
\* catch (b) { print(8) } catch (Error e) { print(4) }
TryOrder ==
    Then5(TryCatchStatement(<<PrintStatement(Num(1)), ThrowStatement(Arg), PrintStatement(Num(3))>>,
                            <<CatchRuntime, CatchB, CatchError>>, <<>>))

\* try { print(1)  print(nope)  print(3) } catch (Exception e) { print(2) }
\* catch (Runtime a) { print(a) } catch (b) { print(8) }
TrySecond ==
    Then5(TryCatchStatement(<<PrintStatement(Num(1)), PrintStatement(Identifier("nope")),
                              PrintStatement(Num(3))>>,
                            <<CatchException, CatchRuntime, CatchB>>, <<>>))

\* try { try { throw n } catch (Exception e) { print(2) } finally { print(9) }  print(3) }
\* catch (Runtime a) { print(a) }
TryNested ==
    Then5(TryCatchStatement(<<TryCatchStatement(<<ThrowStatement(Arg)>>, <<CatchException>>,
                                                Finally9),
                              PrintStatement(Num(3))>>,
                            <<CatchRuntime>>, <<>>))

\* try { throw n } catch (Foo a) { print(6) } catch (Exception e) { print(2) }
TryNoMatch ==
    Then5(TryCatchStatement(<<ThrowStatement(Arg)>>, <<CatchFoo, CatchException>>, <<>>))

\* fnc g_throw ...  try { print(1)  g_throw(n)  print(3) } catch (Runtime a) { print(a) }
TryCallThrows ==
    Program(<<FunctionDef("g_throw"),
              TryCatchStatement(<<PrintStatement(Num(1)), Call("g_throw", <<Arg>>),
                                  PrintStatement(Num(3))>>,
                                <<CatchRuntime>>, <<>>),
              PrintStatement(Num(5))>>)

TryClauseStep ==
    RunOne(<<TryOrder, TrySecond, TryNested, TryNoMatch, TryCallThrows>>, TrySteps)

\* catch (caught) { print(6) }
CatchSignal == CatchClause(<<>>, "caught", <<PrintStatement(Num(6))>>)

\* fnc t_rc ...  print(t_rc(n))
TryReturnCaught == Program(<<FunctionDef("t_rc"), PrintStatement(Call("t_rc", <<Arg>>))>>)

\* for k in 0..3 { try { if (k == n) { break }  print(k) } catch (caught) { print(6) }
\* finally { print(9) } }
TryBreakCaught == TryLoop(BreakStatement(NoNode), <<CatchSignal>>)

\* the same with continue
TryContinueCaught == TryLoop(ContinueStatement, <<CatchSignal>>)

\* the same with a clause that names the failures only:
\* catch (Runtime a) { print(a) }
TryBreakTyped == TryLoop(BreakStatement(NoNode), <<CatchRuntime>>)

TrySignalStep ==
    RunOne(<<TryReturnCaught, TryBreakCaught, TryContinueCaught, TryBreakTyped>>, TrySteps)

NextTry ==
    \/ TryCatchStep
    \/ TryFailStep
    \/ TryLoopStep
    \/ TryReturnStep
    \/ TryClauseStep
    \/ TrySignalStep

SpecTry == InitWith(ReturnInputs) /\ [][NextTry]_vars

\* how often the finally block ran: the number of 9s printed
FinallyRuns(o) == Cardinality({i \in DOMAIN o : o[i] = IntV(Big(9))})

\* C20: the finally block of a try statement runs exactly once for each
\* execution of the statement: when the try block completes (3, 9, 5),
\* when a clause catches the failure (2 or 4, then 9, 5), when no clause
\* matches or there is none (9, then the failure goes on: 5 is not
\* printed), when the catch block itself fails (2, 9, failure), once per
\* round in a loop, and when the try block returns or breaks.
C20_FinallyOnce ==
    [][ steps' = steps + 1 =>
        /\ last'.stmt \in {TryCaught, TryTyped, TryPropagates, TryNoCatch, TryCatchFails,
                           TryFinallyFails, TryReturn} => FinallyRuns(out') = 1
        /\ last'.stmt = TryCaught =>
              last'.sig = "ok" /\ out' = Ints(IF Thrown THEN <<1, 2, 9, 5>> ELSE <<1, 3, 9, 5>>)
        /\ last'.stmt = TryTyped =>
              last'.sig = "ok" /\ out' = Ints(IF Thrown THEN <<4, 9, 5>> ELSE <<3, 9, 5>>)
        /\ last'.stmt \in {TryPropagates, TryNoCatch} =>
              IF Thrown THEN Failed(last') /\ last'.err = "thrown" /\ out' = Ints(<<9>>)
              ELSE last'.sig = "ok" /\ out' = Ints(<<3, 9, 5>>)
        /\ last'.stmt = TryCatchFails =>
              IF Thrown THEN Failed(last') /\ last'.err = "undefined" /\ out' = Ints(<<2, 9>>)
              ELSE last'.sig = "ok" /\ out' = Ints(<<3, 9, 5>>)
        /\ last'.stmt = TryLoopThrow =>
              /\ last'.sig = "ok"
              /\ out' = Ints([i \in 1..6 |->
                                IF i % 2 = 0 THEN 9
                                ELSE IF (i - 1) \div 2 = InputNat THEN 2 ELSE (i - 1) \div 2])
        /\ last'.stmt = TryLoopBreak =>
              /\ last'.sig = "ok"
              /\ out' = Ints(CASE InputNat = 0 -> <<9>>
                               [] InputNat = 1 -> <<0, 9, 9>>
                               [] InputNat = 2 -> <<0, 9, 1, 9, 9>>
                               [] OTHER -> <<0, 9, 1, 9, 2, 9>>)
        /\ last'.stmt = TryReturn =>
              last'.sig = "ok" /\ out' = Ints(IF Thrown THEN <<9, 7>> ELSE <<3, 9, 8>>) ]_vars

\* a failure no clause catches: the finally block has run once and the
\* failure has left the statement
C20_Witness ==
    /\ last.stmt = TryPropagates
    /\ Failed(last)
    /\ out = Ints(<<9>>)

\* the text of the failure of throw n
ThrownText == [StrV("thrown") EXCEPT !.n = input]

\* C21: when the try block fails, the clauses are tried in declaration
\* order and only the first whose type is absent or matches the failure
\* runs, its variable bound to the text of the failure; the rest of the try
\* block does not run (3 is never printed), no second clause runs (8 and 4
\* are never printed), an inner statement without a matching clause hands
\* the failure to the enclosing try, and without any matching clause the
\* failure leaves the statement.
C21_FirstClause ==
    [][ steps' = steps + 1 =>
        /\ last'.stmt \in {TryOrder, TryCallThrows} =>
              /\ last'.sig = "ok"
              /\ out' = <<IntV(Big(1)), ThrownText, IntV(Big(5))>>
              /\ envs'[1].vars["a"].value = ThrownText
              /\ "b" \notin DOMAIN envs'[1].vars \/ "b" \in DOMAIN envs[1].vars
        /\ last'.stmt = TrySecond =>
              /\ last'.sig = "ok"
              /\ out' = <<IntV(Big(1)), StrV("undefined"), IntV(Big(5))>>
        /\ last'.stmt = TryNested =>
              last'.sig = "ok" /\ out' = <<IntV(Big(9)), ThrownText, IntV(Big(5))>>
        /\ last'.stmt = TryNoMatch =>
              Failed(last') /\ last'.err = "thrown" /\ out' = <<>> ]_vars

\* the second of three clauses caught the failure of print(nope)
C21_Witness ==
    /\ last.stmt = TrySecond
    /\ out = <<IntV(Big(1)), StrV("undefined"), IntV(Big(5))>>
    /\ envs[1].vars["a"].value = StrV("undefined")

\* ------------------------------------------------------------------------
\* prefix and postfix ++ / -- (SpecUnary)
\* ------------------------------------------------------------------------

UnarySteps == 2

\* print(op y)
PrintIncDec(op) == PrintStatement(UnaryOp(op, Identifier("y")))

\* print(op 5): the operand is a literal
IncDecLiteral(op) == PrintStatement(UnaryOp(op, Num(5)))

\* print(op (y++)): the operand is an expression that changes y
IncDecNested(op) == PrintStatement(UnaryOp(op, UnaryOp("++_post", Identifier("y"))))

\* print(op q): q is bound nowhere
IncDecUnbound(op) == PrintStatement(UnaryOp(op, Identifier("q")))

\* fnc bump ...  print(bump())
CallBump == Program(<<FunctionDef("bump"), PrintStatement(Call("bump", <<>>))>>)

\* fnc incl ...  print(incl(n))
CallIncl == Program(<<FunctionDef("incl"), PrintStatement(Call("incl", <<Arg>>))>>)

DecYStep == Run(Dec("", "y", Arg), UnarySteps)

IncDecPrintStep == \E op \in IncDecOps : Run(PrintIncDec(op), UnarySteps)

BadOperandStep ==
    \E op \in IncDecOps :
        RunOne(<<IncDecLiteral(op), IncDecNested(op), IncDecUnbound(op)>>, UnarySteps)

IncDecCallStep == RunOne(<<CallBump, CallIncl>>, UnarySteps)

NextUnary ==
    \/ DecYStep
    \/ IncDecPrintStep
    \/ BadOperandStep
    \/ IncDecCallStep

SpecUnary == InitWith(ReturnInputs) /\ [][NextUnary]_vars

YBound == "y" \in DOMAIN envs[1].vars

\* the global y of a list of environments
YOf(es) == es[1].vars["y"].value.n

Delta(op) == IF op \in {"++", "++_post"} THEN 1 ELSE -1

Postfix == {"++_post", "--_post"}

\* y moved by d in the global scope and nothing else changed
YMoved(d) ==
    /\ YOf(envs') = BigAdd(YOf(envs), Big(d))
    /\ envs' = [envs EXCEPT ![1].vars["y"].value.n = YOf(envs')]

\* C23 (as stated): ++/-- change the binding by 1 in the scope that owns
\* it and return the value before the update for the prefix forms and the
\* value after it for the postfix forms; with an operand that is not a
\* bound identifier the step fails and changes nothing.
C23_PreValueForPrefix ==
    [][ steps' = steps + 1 =>
        \A op \in IncDecOps :
            /\ (last'.stmt = PrintIncDec(op) /\ YBound) =>
                  /\ last'.sig = "ok"
                  /\ YMoved(Delta(op))
                  /\ out' = <<IntV(IF op \in Postfix THEN YOf(envs') ELSE YOf(envs))>>
            /\ last'.stmt \in {IncDecLiteral(op), IncDecNested(op), IncDecUnbound(op)} =>
                  Failed(last') /\ envs' = envs /\ out' = <<>> ]_vars

\* C23 (amended): ++/-- change the binding by 1 in the scope that owns it
\* and return the value after the update for the prefix forms and the
\* value before it for the postfix forms; a literal operand or an unbound
\* identifier fails and changes nothing; an operand expression is
\* evaluated first, so op (y++) fails with y already incremented.
C23_IncDecValue ==
    [][ steps' = steps + 1 =>
        /\ \A op \in IncDecOps :
            /\ (last'.stmt = PrintIncDec(op) /\ YBound) =>
                  /\ last'.sig = "ok"
                  /\ YMoved(Delta(op))
                  /\ out' = <<IntV(IF op \in Postfix THEN YOf(envs) ELSE YOf(envs'))>>
            /\ (last'.stmt = PrintIncDec(op) /\ ~YBound) =>
                  Failed(last') /\ last'.err = "undefined" /\ envs' = envs
            /\ last'.stmt = IncDecLiteral(op) =>
                  Failed(last') /\ last'.err = "nonvariable" /\ envs' = envs /\ out' = <<>>
            /\ last'.stmt = IncDecUnbound(op) =>
                  Failed(last') /\ last'.err = "undefined" /\ envs' = envs /\ out' = <<>>
            /\ (last'.stmt = IncDecNested(op) /\ YBound) =>
                  Failed(last') /\ last'.err = "nonvariable" /\ YMoved(1) /\ out' = <<>>
        /\ (last'.stmt = CallBump /\ YBound) =>
              /\ last'.sig = "ok"
              /\ YOf(envs') = BigAdd(YOf(envs), Big(1))
              /\ out' = <<IntV(YOf(envs))>>
        /\ (last'.stmt = CallIncl /\ YBound) =>
              /\ last'.sig = "ok"
              /\ YOf(envs') = YOf(envs)
              /\ out' = <<IntV(BigAdd(input, Big(1))), IntV(BigAdd(input, Big(1)))>> ]_vars

\* print(++y) with y = 3 printed 4 and left y = 4
C23_Witness ==
    /\ last.stmt = PrintIncDec("++")
    /\ input = Big(3)
    /\ YBound
    /\ YOf(envs) = Big(4)
    /\ out = <<IntV(Big(4))>>

\* C24: a declaration inside a block (an if or else body, a while, for or
\* for-in body) or inside a function body creates its variable in an
\* environment of the block or call: when x was not bound in the global
\* scope before the statement, it is not bound there after it.
C24_BlockScope ==
    [][ (steps' = steps + 1 /\ "x" \notin DOMAIN envs[1].vars) =>
        /\ last'.sig = "ok"
        /\ (\E i \in DOMAIN BlockDecls : last'.stmt = BlockDecls[i]) \/ last'.stmt = CallDecl =>
              "x" \notin DOMAIN envs'[1].vars ]_vars

\* what the loop of TryLoop prints when round n breaks out of it
BreakOut ==
    Ints(CASE InputNat = 0 -> <<9>>
           [] InputNat = 1 -> <<0, 9, 9>>
           [] InputNat = 2 -> <<0, 9, 1, 9, 9>>
           [] OTHER -> <<0, 9, 1, 9, 2, 9>>)

\* C26: return, break and continue inside a try block are not catchable:
\* no catch clause runs (6 is never printed), no catch variable is bound,
\* and after the finally block the signal reaches its function call (which
\* returns 7) or its loop (which ends, or goes on with the next round).
C26_SignalsPass ==
    [][ steps' = steps + 1 =>
        /\ last'.stmt = TryReturnCaught =>
              last'.sig = "ok" /\ out' = Ints(IF Thrown THEN <<9, 7>> ELSE <<3, 9, 8>>)
        /\ last'.stmt \in {TryBreakCaught, TryBreakTyped} =>
              last'.sig = "ok" /\ out' = BreakOut
        /\ last'.stmt = TryContinueCaught =>
              /\ last'.sig = "ok"
              /\ out' = Ints(CASE InputNat = 0 -> <<9, 1, 9, 2, 9>>
                               [] InputNat = 1 -> <<0, 9, 9, 2, 9>>
                               [] InputNat = 2 -> <<0, 9, 1, 9, 9>>
                               [] OTHER -> <<0, 9, 1, 9, 2, 9>>)
        /\ last'.stmt \in {TryBreakCaught, TryContinueCaught} =>
              "caught" \notin DOMAIN envs'[1].vars ]_vars

\* what the code does with them: `except Exception` takes the three signals
\* as well, so a clause without a type runs for them (6 is printed), its
\* variable is bound, and the signal ends there: the function goes on to
\* return 8 and the loop goes on with its next round.  A clause that names
\* the failures (catch (Runtime a)) does not match a signal.
SignalsCaught ==
    [][ steps' = steps + 1 =>
        /\ last'.stmt \in {TryBreakTyped, TryLoopBreak} => last'.sig = "ok" /\ out' = BreakOut
        /\ last'.stmt = TryReturnCaught =>
              last'.sig = "ok" /\ out' = Ints(IF Thrown THEN <<6, 9, 8>> ELSE <<3, 9, 8>>)
        /\ last'.stmt \in {TryBreakCaught, TryContinueCaught} =>
              /\ last'.sig = "ok"
              /\ out' = Ints(CASE InputNat = 0 -> <<6, 9, 1, 9, 2, 9>>
                               [] InputNat = 1 -> <<0, 9, 6, 9, 2, 9>>
                               [] InputNat = 2 -> <<0, 9, 1, 9, 6, 9>>
                               [] OTHER -> <<0, 9, 1, 9, 2, 9>>)
              /\ InputNat < 3 => "caught" \in DOMAIN envs'[1].vars ]_vars

\* ------------------------------------------------------------------------
\* The current environment across calls: a lambda and two functions that
\* read the global nope, which is bound or not when they are called
\* ------------------------------------------------------------------------
EnvSteps == 3

\* lam = |a| a + nope
LamDef == Assignment("lam", LambdaExpr("lam_add"))

\* nope = n
NopeDef == Assignment("nope", Arg)

\* print(f(n))
PrintCall(f) == PrintStatement(Call(f, <<Arg>>))

\* try { print(f(n)) } catch (caught) { print(6) }
TryCall(f) == TryCatchStatement(<<PrintCall(f)>>, <<CatchSignal>>, <<>>)

\* the statements that call a user function
FunctionCalls ==
    <<PrintCall("addn"), TryCall("addn"), Call("addp", <<Arg>>), TryCall("addp"),
      Call("addn", <<Arg, Arg>>)>>

\* the statements that call the lambda
LambdaCalls == <<PrintCall("lam"), TryCall("lam"), Call("lam", <<>>)>>

\* the statements that call a function with a named argument:
\* print(addn(n, a = 7)), print(addn(n, nope = 7)), addp(n, zz = 7)
KwargCalls ==
    <<PrintStatement(FunctionCall("addn", <<Arg>>, << <<"a", Num(7)>> >>)),
      PrintStatement(FunctionCall("addn", <<Arg>>, << <<"nope", Num(7)>> >>)),
      FunctionCall("addp", <<Arg>>, << <<"zz", Num(7)>> >>)>>

DefineStep == RunOne(<<LamDef, FunctionDef("addn"), FunctionDef("addp"), NopeDef>>, EnvSteps)

FunctionCallStep == RunOne(FunctionCalls, EnvSteps)

LambdaCallStep == RunOne(LambdaCalls, EnvSteps)

KwargCallStep == RunOne(KwargCalls, EnvSteps)

NextEnv ==
    \/ DefineStep
    \/ FunctionCallStep
    \/ LambdaCallStep
    \/ KwargCallStep

SpecEnv == InitWith(ReturnInputs) /\ [][NextEnv]_vars

\* C27: after a call of a user function or of a lambda has finished, by
\* running to its end, by return or by a failure (caught by the caller's
\* try or not), the current environment is the one before the call; after
\* every top-level statement it is the global environment.
C27_EnvRestored == env = 1

\* what the code keeps of it: the calls of user functions restore the
\* environment however they end, and so do the calls of a lambda whose body
\* does not fail; a lambda whose body fails leaves self.env at its frame
FunctionsRestore ==
    [][ steps' = steps + 1 /\ env = 1 =>
        /\ (\E i \in DOMAIN FunctionCalls : last'.stmt = FunctionCalls[i]) => env' = 1
        /\ (\E i \in DOMAIN KwargCalls : last'.stmt = KwargCalls[i]) => env' = 1
        /\ (\E i \in DOMAIN LambdaCalls : last'.stmt = LambdaCalls[i]) =>
              env' = 1 \/ "nope" \notin DOMAIN envs[1].vars ]_vars

\* C29: a match arm that does not fire leaves every binding as it was: when
\* the guard of the arm `v if v > 2` is false and the wildcard arm runs
\* (2 is printed), the environments are the ones before the statement, and
\* when the arm fires (1 is printed) v is bound to the matched value.
C29_FailedArmBindsNothing ==
    [][ steps' = steps + 1 /\ last'.stmt = MatchBind =>
        /\ last'.sig = "ok"
        /\ out' = Ints(IF InputNat > 2 THEN <<1>> ELSE <<2>>)
        /\ InputNat > 2 => envs'[1].vars["v"].value = IntV(input)
        /\ InputNat <= 2 => envs' = envs ]_vars

\* C30: a named argument f(p = v) touches only the frame of the call: it
\* creates and changes no binding of the global environment (which is the
\* defining and the calling environment of addn and addp here), whether p
\* is a parameter (a), a global (nope) or bound nowhere (zz); a named
\* parameter takes the value given.
C30_KwargsLocal ==
    [][ steps' = steps + 1 /\ env = 1 /\ (\E i \in DOMAIN KwargCalls : last'.stmt = KwargCalls[i]) =>
        /\ envs'[1] = envs[1]
        /\ (last'.stmt = KwargCalls[1] /\ {"addn", "nope"} \subseteq DOMAIN envs[1].vars) =>
              last'.sig = "ok" /\ out' = <<ApplyBinary("+", IntV(Big(7)), envs[1].vars["nope"].value).v>> ]_vars

\* what the code keeps of it: a named parameter is set in the frame and
\* nothing else changes; any other name is set by Environment.set, which
\* climbs to the scope that binds it or defines it in the global scope
KwargsParameter ==
    [][ steps' = steps + 1 /\ env = 1 /\ last'.stmt = KwargCalls[1] =>
        /\ envs'[1] = envs[1]
        /\ {"addn", "nope"} \subseteq DOMAIN envs[1].vars =>
              last'.sig = "ok" /\ out' = <<ApplyBinary("+", IntV(Big(7)), envs[1].vars["nope"].value).v>> ]_vars

\* ------------------------------------------------------------------------
\* The front end as main.py drives it: tokenize(code), Parser(tokens).parse()
\* and Interpreter.eval of the program.  steps counts the stages done.
\* ------------------------------------------------------------------------
LexSteps == 3

\* the interpreter after construction and the source text drawn from S
InitText(S) ==
    /\ envs = <<GlobalEnv>>
    /\ env = 1
    /\ out = <<>>
    /\ last = [err |-> "", sig |-> "ok", val |-> NullV, stmt |-> NoNode]
    /\ steps = 0
    /\ input = Big(0)
    /\ code \in S
    /\ tokens = <<>>
    /\ tree = NoNode

\* a Parser constructed on a token list drawn from S
InitTokens(S) ==
    /\ envs = <<GlobalEnv>>
    /\ env = 1
    /\ out = <<>>
    /\ last = [err |-> "", sig |-> "ok", val |-> NullV, stmt |-> NoNode]
    /\ steps = 0
    /\ input = Big(0)
    /\ code = <<>>
    /\ tokens \in S
    /\ tree = NoNode

\* how a stage ended: "" or the error it raised
Stage(err) ==
    [err |-> err, sig |-> IF err = "" THEN "ok" ELSE "error", val |-> NullV, stmt |-> NoNode]

\* tokens = tokenize(code)
TokenizeStep ==
    /\ steps = 0
    /\ tokens = <<>>
    /\ tokens' = tokenize(code).tokens
    /\ last' = Stage(tokenize(code).err)
    /\ steps' = 1
    /\ UNCHANGED <<envs, env, out, input, code, tree>>

\* tree = Parser(tokens).parse()
ParseStep ==
    /\ last.sig = "ok"
    /\ tokens # <<>>
    /\ tree = NoNode
    /\ tree' = parse(tokens).node
    /\ last' = Stage(parse(tokens).err)
    /\ steps' = steps + 1
    /\ UNCHANGED <<envs, env, out, input, code, tokens>>

\* interpreter.eval(tree)
EvalStep ==
    /\ last.sig = "ok"
    /\ tree.k = "Program"
    /\ Run(tree, LexSteps)

\* the operands, operators, spacings and line ends of the texts
OperandTexts == {<<"7">>, <<"2">>, <<"2", "7">>}

\* //, -, + and - with a block comment in front: /*//*/-
OperatorTexts ==
    {<<"/", "/">>, <<"-">>, <<"+">>, <<"/", "*", "/", "/", "*", "/", "-">>}

Spacings == {<<>>, <<" ">>}

\* nothing, a second line holding 2, and a # comment
LineEnds == {<<>>, <<"\n", "2">>, <<" ", "#", "2">>}

\* a, op and b on one line
Line(a, s, op, b, end) == a \o s \o op \o s \o b \o end

Texts ==
    {Line(a, s, op, b, end) :
        a \in OperandTexts, s \in Spacings, op \in OperatorTexts, b \in OperandTexts,
        end \in LineEnds}

\* the tree of a // b or -a // b, as the parser would build it from the
\* three tokens
FloorDivTree(a, neg, b) ==
    BinaryOp(IF neg THEN UnaryOp("-", Literal(IntV(Big(DecimalValue(a)))))
             ELSE Literal(IntV(Big(DecimalValue(a)))),
             "//", Literal(IntV(Big(DecimalValue(b)))))

\* interpreter.eval of such a tree, handed to the interpreter directly
EvalTreeStep ==
    /\ steps = 0
    /\ \E a \in OperandTexts, neg \in BOOLEAN, b \in OperandTexts :
          Run(FloorDivTree(a, neg, b), LexSteps)

NextLex ==
    \/ TokenizeStep
    \/ ParseStep
    \/ EvalStep
    \/ EvalTreeStep

SpecLex == InitText(Texts) /\ [][NextLex]_vars

\* C28: `//` between two operands on one line reaches the parser as an
\* operator token between the tokens of its operands, and a // b evaluates
\* to the floor quotient of a and b.
C28_FloorDivision ==
    [][ \A a \in OperandTexts, s \in Spacings, b \in OperandTexts :
          /\ (tokens' # tokens /\ \E end \in LineEnds : code = Line(a, s, <<"/", "/">>, b, end)) =>
                /\ Len(tokens') >= 3
                /\ SubSeq(tokens', 1, 3) = << <<"NUMBER", a>>, <<"OP", <<"/", "/">> >>, <<"NUMBER", b>> >>
          /\ (steps = 2 /\ steps' = 3 /\ code = Line(a, s, <<"/", "/">>, b, <<>>)) =>
                /\ last'.sig = "ok"
                /\ last'.val = IntV(Big(DecimalValue(a) \div DecimalValue(b))) ]_vars

\* what the code does with these lines: remove_comments takes // for the
\* start of a comment and drops it with the rest of the line, so the first
\* operand is all that is left of the line and the program evaluates to it
\* (or to the 2 of the second line); - and + reach the parser, with or
\* without a block comment in front of them; the evaluator, given the tree
\* of a // b, returns the floor quotient
FloorDivIsComment ==
    [][ \A a \in OperandTexts, s \in Spacings, b \in OperandTexts :
          /\ tokens' # tokens =>
                /\ code = Line(a, s, <<"/", "/">>, b, <<"\n", "2">>) =>
                      tokens' = << <<"NUMBER", a>>, <<"NUMBER", <<"2">> >> >>
                /\ code \in {Line(a, s, <<"/", "/">>, b, <<>>), Line(a, s, <<"/", "/">>, b, <<" ", "#", "2">>)} =>
                      tokens' = << <<"NUMBER", a>> >>
                /\ code \in {Line(a, s, <<"-">>, b, <<" ", "#", "2">>),
                             Line(a, s, <<"/", "*", "/", "/", "*", "/", "-">>, b, <<>>)} =>
                      tokens' = << <<"NUMBER", a>>, <<"OP", <<"-">> >>, <<"NUMBER", b>> >>
          /\ (steps = 2 /\ steps' = 3) =>
                /\ code = Line(a, s, <<"/", "/">>, b, <<>>) =>
                      last'.val = IntV(Big(DecimalValue(a)))
                /\ code = Line(a, s, <<"-">>, b, <<>>) =>
                      last'.val = IntV(Big(DecimalValue(a) - DecimalValue(b)))
                /\ code = Line(a, s, <<"+">>, b, <<"\n", "2">>) =>
                      last'.val = IntV(Big(2))
          /\ (steps = 0 /\ steps' = 1 /\ last'.stmt = FloorDivTree(a, FALSE, b)) =>
                last'.val = IntV(Big(DecimalValue(a) \div DecimalValue(b)))
          /\ (steps = 0 /\ steps' = 1 /\ last'.stmt = FloorDivTree(<<"7">>, TRUE, <<"2">>)) =>
                last'.val = IntV(Big(-4)) ]_vars

\* ------------------------------------------------------------------------
\* The expression parser on token lists
\* ------------------------------------------------------------------------
Id(name) == <<"ID", <<name>> >>

\* the binary operators tried, as the lexer delivers them: words are ID
\* tokens (in is a KEYWORD), the others OP tokens
BinaryTokens ==
    {<<"ID", <<"o", "r">> >>, <<"ID", <<"x", "o", "r">> >>, <<"OP", <<"|", "|">> >>,
     <<"ID", <<"a", "n", "d">> >>, <<"OP", <<"&", "&">> >>,
     <<"ID", <<"t", "h", "e", "n">> >>, <<"ID", <<"n", "a", "n", "d">> >>,
     <<"OP", <<"=", "=">> >>, <<"OP", <<"<">> >>, <<"KEYWORD", <<"i", "n">> >>,
     <<"OP", <<"|">> >>, <<"OP", <<"^">> >>, <<"OP", <<"&">> >>,
     <<"OP", <<"<", "<">> >>, <<"OP", <<">", ">">> >>, <<"OP", <<".", ".">> >>,
     <<"OP", <<"+">> >>, <<"OP", <<"-">> >>,
     <<"OP", <<"*">> >>, <<"OP", <<"/">> >>, <<"OP", <<"%">> >>, <<"OP", <<"/", "/">> >>,
     <<"OP", <<"*", "*">> >>}

\* a op1 b op2 c
ThreeOperands(op1, op2) == <<Id("a"), op1, Id("b"), op2, Id("c")>>

\* -a ** b, not a ** b, a ** -b, a ** b ++, a + b * c ** d, (a + b) * c,
\* a ? b : c or d, x = a or b
Minus == <<"OP", <<"-">> >>

Power == <<"OP", <<"*", "*">> >>

NamedInputs ==
    <<<<Minus, Id("a"), Power, Id("b")>>,
      <<Id("not"), Id("a"), Power, Id("b")>>,
      <<Id("a"), Power, Minus, Id("b")>>,
      <<Id("a"), Power, Id("b"), <<"OP", <<"+", "+">> >> >>,
      <<Id("a"), <<"OP", <<"+">> >>, Id("b"), <<"OP", <<"*">> >>, Id("c"), Power, Id("d")>>,
      <<<<"LPAREN", <<"(">> >>, Id("a"), <<"OP", <<"+">> >>, Id("b"), <<"RPAREN", <<")">> >>,
        <<"OP", <<"*">> >>, Id("c")>>,
      <<Id("a"), <<"OP", <<"?">> >>, Id("b"), <<"COLON", <<":">> >>, Id("c"),
        <<"ID", <<"o", "r">> >>, Id("d")>>,
      <<Id("x"), <<"OP", <<"=">> >>, Id("a"), <<"ID", <<"o", "r">> >>, Id("b")>>,
      <<Id("a"), Power, Id("b"), Power, Id("c"), Power, Id("d")>> >>

TokenInputs ==
    {ThreeOperands(op1, op2) : op1 \in BinaryTokens, op2 \in BinaryTokens}
    \cup {NamedInputs[i] : i \in DOMAIN NamedInputs}

SpecParse == InitTokens(TokenInputs) /\ [][ParseStep]_vars

\* the tiers of the binary operators as the specification orders them, the
\* tightest highest: ** over * / % // over + - over range, shift, bitwise
\* and, xor, or, comparison, nand, then, and, or/xor
Tier(op) ==
    CASE op = "**" -> 13
      [] op \in {"*", "/", "%", "//"} -> 12
      [] op \in {"+", "-"} -> 11
      [] op = ".." -> 10
      [] op \in {"<<", ">>"} -> 9
      [] op = "&" -> 8
      [] op = "^" -> 7
      [] op = "|" -> 6
      [] op \in {"==", "<", "in"} -> 5
      [] op = "nand" -> 4
      [] op = "then" -> 3
      [] op \in {"and", "&&"} -> 2
      [] op \in {"or", "xor", "||"} -> 1

\* the node of l op r
Binary(l, op, r) ==
    IF op = ".." THEN RangeLiteral(l, r, FALSE) ELSE BinaryOp(l, OpName(op), r)

\* the grouping of a op1 b op2 c the tiers ask for: the tighter operator
\* first, operators of one tier from the left, ** from the right
Grouping(op1, op2) ==
    IF Tier(op1) > Tier(op2) \/ (Tier(op1) = Tier(op2) /\ op1 # "**")
    THEN Binary(Binary(Identifier("a"), op1, Identifier("b")), op2, Identifier("c"))
    ELSE Binary(Identifier("a"), op1, Binary(Identifier("b"), op2, Identifier("c")))

Expr(node) == Program(<<node>>)

\* C25: the parse of a op1 b op2 c groups by the tiers for every pair of
\* binary operators (two ranges in a row are not an expression and are left
\* aside), ** groups from the right, a prefix operator binds tighter than
\* ** on its left operand, a + b * c ** d is a + (b * (c ** d)) and
\* a or b and c is a or (b and c).
C25_Precedence ==
    [][ steps' = steps + 1 =>
        /\ \A op1 \in BinaryTokens, op2 \in BinaryTokens :
              (tokens = ThreeOperands(op1, op2) /\ ~(op1[2] = <<".", ".">> /\ op2[2] = <<".", ".">>)) =>
                 tree' = Expr(Grouping(Str(op1[2]), Str(op2[2])))
        /\ tokens = NamedInputs[1] =>
              tree' = Expr(BinaryOp(UnaryOp("-", Identifier("a")), "**", Identifier("b")))
        /\ tokens = NamedInputs[2] =>
              tree' = Expr(BinaryOp(UnaryOp("not", Identifier("a")), "**", Identifier("b")))
        /\ tokens = NamedInputs[3] =>
              tree' = Expr(BinaryOp(Identifier("a"), "**", UnaryOp("-", Identifier("b"))))
        /\ tokens = NamedInputs[5] =>
              tree' = Expr(BinaryOp(Identifier("a"), "+",
                             BinaryOp(Identifier("b"), "*",
                                BinaryOp(Identifier("c"), "**", Identifier("d")))))
        /\ tokens = NamedInputs[6] =>
              tree' = Expr(BinaryOp(BinaryOp(Identifier("a"), "+", Identifier("b")), "*",
                                    Identifier("c")))
        /\ tokens = NamedInputs[9] =>
              tree' = Expr(BinaryOp(Identifier("a"), "**",
                             BinaryOp(Identifier("b"), "**",
                                BinaryOp(Identifier("c"), "**", Identifier("d")))))
        /\ tokens = ThreeOperands(<<"ID", <<"o", "r">> >>, <<"ID", <<"a", "n", "d">> >>) =>
              tree' = Expr(BinaryOp(Identifier("a"), "or",
                             BinaryOp(Identifier("b"), "and", Identifier("c")))) ]_vars

\* a ** b ** c has been parsed as a ** (b ** c)
C25_Witness ==
    /\ tokens = ThreeOperands(Power, Power)
    /\ tree = Expr(BinaryOp(Identifier("a"), "**", BinaryOp(Identifier("b"), "**", Identifier("c"))))

\* ------------------------------------------------------------------------
\* print and printf: format texts made of one or two pieces, with no
\* argument, the number n or the text x
\* ------------------------------------------------------------------------
PrintSteps == 1

\* the pieces of a format text: a letter, the conversions %s and %d, the
\* escape of a newline, a doubled backslash and the letter n
Pieces ==
    {<<"A">>, <<"%", "s">>, <<"%", "d">>, <<"\\", "n">>, <<"\\", "\\">>, <<"n">>}

\* A%sB\n, 100%%\n and a\\nb as they stand between the quotes
NamedTexts ==
    {<<"A", "%", "s", "B", "\\", "n">>,
     <<"1", "0", "0", "%", "%", "\\", "n">>,
     <<"a", "\\", "\\", "n", "b">>}

FormatTexts == Pieces \cup {p \o q : p \in Pieces, q \in Pieces} \cup NamedTexts

Text(chars) == Literal(TextV(chars))

\* the argument lists of a printf: none, n, "x"
ArgLists == {<<>>, <<Arg>>, <<Text(<<"x">>)>>}

\* printf(fmt, args...)
Printf(fmt, args) == PrintfStatement(Text(fmt), args)

\* the expressions a print shows: n, -n - 12, true, null and a text
PrintExprs ==
    {Arg, BinaryOp(UnaryOp("-", Arg), "-", Num(12)), Literal(BoolV(TRUE)),
     Literal(NullV)} \cup {Text(fmt) : fmt \in Pieces \cup NamedTexts}

\* printf("A") printf("%d", n) print(n) printf("B\n") in one program, and
\* a printf of a number
Sequences ==
    <<Program(<<Printf(<<"A">>, <<>>), Printf(<<"%", "d">>, <<Arg>>), PrintStatement(Arg),
                Printf(<<"B", "\\", "n">>, <<>>)>>),
      Program(<<PrintStatement(Arg), PrintStatement(Arg)>>),
      PrintfStatement(Arg, <<>>)>>

PrintfStep == \E fmt \in FormatTexts, args \in ArgLists : Run(Printf(fmt, args), PrintSteps)

PrintStep == \E expr \in PrintExprs : Run(PrintStatement(expr), PrintSteps)

SequenceStep == RunOne(Sequences, PrintSteps)

NextPrint ==
    \/ PrintfStep
    \/ PrintStep
    \/ SequenceStep

SpecPrint == InitWith(ReturnInputs) /\ [][NextPrint]_vars

RECURSIVE Written(_)
\* the characters a sequence of output entries puts on the output: a print
\* ends its text with a newline, a printf does not
Written(entries) ==
    IF entries = <<>> THEN <<>>
    ELSE IF Head(entries).t = "write" THEN Head(entries).c \o Written(Tail(entries))
    ELSE Display(Head(entries)) \o <<"\n">> \o Written(Tail(entries))

RECURSIVE Resolved(_)
\* a text with its backslash escapes resolved from the left: \n, \t, \r
\* and \\ each stand for one character
Resolved(text) ==
    IF Len(text) < 2 \/ text[1] # "\\" \/ text[2] \notin {"n", "t", "r", "\\"}
    THEN IF text = <<>> THEN <<>> ELSE <<text[1]>> \o Resolved(Tail(text))
    ELSE <<CASE text[2] = "n" -> "\n" [] text[2] = "t" -> "\t" [] text[2] = "r" -> "\r"
             [] OTHER -> "\\">> \o Resolved(Tail(Tail(text)))

RECURSIVE Conversions(_)
\* the characters that follow the percent signs of a text, from the left
\* ("" for a percent sign at the end)
Conversions(text) ==
    IF text = <<>> THEN <<>>
    ELSE IF text[1] # "%" THEN Conversions(Tail(text))
    ELSE IF Len(text) = 1 THEN <<"">>
    ELSE (IF text[2] = "%" THEN <<>> ELSE <<text[2]>>) \o Conversions(Tail(Tail(text)))

\* every conversion of the text is %s or %d, has its value, and a %d has a
\* number
WellFormed(text, values) ==
    /\ Len(Conversions(text)) = Len(values)
    /\ \A i \in DOMAIN values :
          \/ Conversions(text)[i] = "s"
          \/ Conversions(text)[i] = "d" /\ values[i].t = "int"

RECURSIVE Substituted(_, _)
\* a text with %% as a percent sign and its conversions replaced by the
\* display forms of the values, in order
Substituted(text, values) ==
    IF text = <<>> THEN <<>>
    ELSE IF text[1] # "%" THEN <<text[1]>> \o Substituted(Tail(text), values)
    ELSE IF text[2] = "%" THEN <<"%">> \o Substituted(Tail(Tail(text)), values)
    ELSE Display(Head(values)) \o Substituted(Tail(Tail(text)), Tail(values))

\* the values of an argument list of literals
Values(args) == [i \in DOMAIN args |-> args[i].value]

\* the text has a doubled backslash
Doubled(text) == \E i \in 1..Len(text) - 1 : text[i] = "\\" /\ text[i + 1] = "\\"

\* a step writes the output of a printf and of a print, for the format
\* texts in S
PrintfOutput(S) ==
    steps' = steps + 1 =>
      /\ \A fmt \in S, args \in ArgLists :
            (last'.stmt = Printf(fmt, args) /\ WellFormed(Resolved(fmt), Values(args))) =>
               /\ last'.sig = "ok"
               /\ Written(out') = Substituted(Resolved(fmt), Values(args))
      /\ \A fmt \in S :
            last'.stmt = PrintStatement(Text(fmt)) =>
               Written(out') = Resolved(fmt) \o <<"\n">>
      /\ last'.stmt = PrintStatement(Arg) => Written(out') = IntText(input) \o <<"\n">>
      /\ last'.stmt = PrintStatement(Literal(BoolV(TRUE))) =>
            Written(out') = <<"T", "r", "u", "e", "\n">>
      /\ last'.stmt = PrintStatement(Literal(NullV)) =>
            Written(out') = <<"N", "o", "n", "e", "\n">>
      /\ last'.stmt = Sequences[1] =>
            Written(out') = <<"A">> \o IntText(input) \o IntText(input)
                               \o <<"\n", "B", "\n">>

\* C22: printf(fmt, args...) writes exactly the text of fmt after the
\* resolution of its backslash escapes and the positional substitution of
\* args, and no newline of its own; print(expr) writes the display form of
\* the value and exactly one newline.
C22_PrintfText == [][PrintfOutput(FormatTexts)]_vars

\* the same holds of every format text without a doubled backslash
PrintfChain == [][PrintfOutput({fmt \in FormatTexts : ~Doubled(fmt)})]_vars

====
